---- MODULE Spec2Model ----
(***************************************************************************)
(* Financial-statement text extraction: the number scanner, the            *)
(* consecutiveness counter and the line loop of financialsmarttool.py, and *)
(* the table grouper of tablefromraw.py.                                   *)
(*                                                                         *)
(* A text is a sequence of one-character strings.  Offsets are Python's    *)
(* 0-based offsets: the character at offset p of s is s[p + 1], and the    *)
(* slice s[a:b] is Slice(s, a, b).                                         *)
(***************************************************************************)
EXTENDS Integers, Sequences, FiniteSets, TLC

VARIABLES
    pc,               \* the step the behaviour is at
    text,             \* the line handed to the scanner / the raw line just read
    scan,             \* extract_numbers_smart(text): regular, excluded, all
    matches,          \* the scanning loop's facts about each match of text
    consecutive,      \* count_consecutive_regular_numbers(text)
    page_num,         \* extract_all_financial_data: enumerate(pdf.pages, 1)
    current_section,  \* extract_all_financial_data: current_section
    doc,              \* history: the cleaned lines read so far, with their page
    emitted_at,       \* history: for each record, the index in doc of its line
    all_data,         \* extract_all_financial_data: the records emitted so far
    df,               \* group_into_tables_fast: the input rows
    tables,           \* group_into_tables_fast: the returned tables
    regrouped,        \* the tables obtained by grouping the flattened tables
    value,            \* parse_value / parse_numeric_value: the string to parse
    parsed,           \* parse_value(value)
    parsed_numeric,   \* parse_numeric_value(value)
    table_df,         \* create_structured_table_from_raw: the rows of one table
    structured_df,    \* create_structured_table_from_raw: the returned rows
    df_filtered,      \* filter_raw_extraction: the rows kept
    numeric_df,       \* add_numeric_columns: the returned rows
    table_num,        \* the number of the table sheet being structured
    script,           \* batch_process_all_files: the script the batch runs in
    listing,          \* folder.list_paths_in_partition()
    excel_files,      \* list_excel_files_in_folder()
    file_index,       \* batch_process_all_files: the files handled so far
    current_file,     \* the workbook of the file handled last, and what fails on it
    results           \* batch_process_all_files: results

\* The variables of batch processing.
batch_vars == << script, listing, excel_files, file_index, current_file, results >>

\* The variables of the stages after extraction and grouping.
stage_vars == << value, parsed, parsed_numeric, table_df, structured_df, df_filtered,
                 numeric_df, table_num, batch_vars >>

\* The variables of extraction and grouping.
extract_vars == << text, scan, matches, consecutive, page_num, current_section,
                   doc, emitted_at, all_data, tables, regrouped >>

vars == << pc, text, scan, matches, consecutive, page_num, current_section,
           doc, emitted_at, all_data, df, tables, regrouped, stage_vars >>

\* Python's None where a text is expected.
None == << "None" >>

\* Bind(e, LAMBDA x : body) is body with x naming the value of e; e is
\* evaluated once, however often body uses x.
Bind(e, Body(_)) == CHOOSE r \in {Body(x) : x \in {e}} : TRUE

-----------------------------------------------------------------------------
(* Characters and Python string primitives.  The operators below expect    *)
(* their text arguments to be names of values (see Bind).                  *)

Digits == {"0","1","2","3","4","5","6","7","8","9"}

LowerLetters ==
    << "a","b","c","d","e","f","g","h","i","j","k","l","m",
       "n","o","p","q","r","s","t","u","v","w","x","y","z" >>

UpperLetters ==
    << "A","B","C","D","E","F","G","H","I","J","K","L","M",
       "N","O","P","Q","R","S","T","U","V","W","X","Y","Z" >>

Range(s) == {s[i] : i \in DOMAIN s}

Letters == Range(LowerLetters) \cup Range(UpperLetters)

Whitespace == {" ", "\t"}

\* The characters of the class [â€“â€”] that clean_text turns into '-'.
DashChars == {"U+00E2", "U+20AC", "U+201C", "U+201D"}

LowerMap ==
    [c \in Range(UpperLetters) |->
        LowerLetters[CHOOSE i \in DOMAIN UpperLetters : UpperLetters[i] = c]]

isalpha(c) == c \in Letters

isdigit(c) == c \in Digits

isspace(c) == c \in Whitespace

lower_char(c) == IF c \in DOMAIN LowerMap THEN LowerMap[c] ELSE c

\* str.lower()
lower(s) == [i \in DOMAIN s |-> lower_char(s[i])]

Min(S) == CHOOSE x \in S : \A y \in S : x <= y

Max(S) == CHOOSE x \in S : \A y \in S : x >= y

\* The members of a set of integers in increasing order.
Sorted(S) ==
    [k \in 1..Cardinality(S) |-> CHOOSE i \in S : Cardinality({j \in S : j < i}) = k - 1]

\* Python s[a:b] for 0 <= a; b is clamped to len(s).
Slice(s, a, b) == SubSeq(s, a + 1, IF b > Len(s) THEN Len(s) ELSE b)

\* s[a:]
SliceFrom(s, a) == SubSeq(s, a + 1, Len(s))

\* True when sub occurs in s at offset p.
OccursAt(s, sub, p) ==
    /\ p >= 0
    /\ p + Len(sub) <= Len(s)
    /\ \A i \in 1..Len(sub) : s[p + i] = sub[i]

\* str.find(sub, start): the lowest offset >= start where sub occurs, or -1.
find(s, sub, start) ==
    Bind({p \in start..(Len(s) - Len(sub)) : OccursAt(s, sub, p)},
         LAMBDA hits : IF hits = {} THEN 0 - 1 ELSE Min(hits))

\* sub in s
contains(s, sub) == \E p \in 0..(Len(s) - Len(sub)) : OccursAt(s, sub, p)

\* The offset where the run of characters of class C that starts at p ends.
SpanEnd(s, p, C) ==
    Bind({q \in p..(Len(s) - 1) : s[q + 1] \notin C},
         LAMBDA stops : IF stops = {} THEN Len(s) ELSE Min(stops))

\* str.strip()
strip(s) ==
    Bind({i \in DOMAIN s : s[i] \notin Whitespace},
         LAMBDA keep : IF keep = {} THEN << >> ELSE SubSeq(s, Min(keep), Max(keep)))

\* str.replace(old, new, 1): only the first occurrence is replaced.
replace_first(s, old, new) ==
    Bind(find(s, old, 0),
         LAMBDA pos : IF pos = 0 - 1 THEN s
                      ELSE Slice(s, 0, pos) \o new \o SliceFrom(s, pos + Len(old)))

\* re.sub(r'\s+', ' ', text): every run of whitespace becomes one blank.
collapse_whitespace(s) ==
    Bind(Sorted({i \in DOMAIN s : ~(isspace(s[i]) /\ i > 1 /\ isspace(s[i - 1]))}),
         LAMBDA idx : [k \in DOMAIN idx |-> IF isspace(s[idx[k]]) THEN " " ELSE s[idx[k]]])

\* re.sub(r'[â€“â€”]', '-', text)
replace_dashes(s) == [i \in DOMAIN s |-> IF s[i] \in DashChars THEN "-" ELSE s[i]]

clean_text(t) ==
    Bind(collapse_whitespace(t), LAMBDA t1 :
    Bind(replace_dashes(t1), LAMBDA t2 : strip(t2)))

-----------------------------------------------------------------------------
(* Configuration                                                           *)

FINANCIAL_TERMS ==
    << <<"o","p","e","r","a","t","i","n","g"," ","i","n","c","o","m","e">>,
       <<"o","p","e","r","a","t","i","n","g"," ","e","x","p","e","n","s","e","s">>,
       <<"c","r","e","d","i","t"," ","i","m","p","a","i","r","m","e","n","t">>,
       <<"o","t","h","e","r"," ","i","m","p","a","i","r","m","e","n","t">>,
       <<"g","o","o","d","w","i","l","l"," ","i","m","p","a","i","r","m","e","n","t">>,
       <<"p","r","o","f","i","t"," ","b","e","f","o","r","e"," ","t","a","x">>,
       <<"p","r","o","f","i","t"," ","b","e","f","o","r","e"," ","t","a","x","a","t","i","o","n">>,
       <<"p","r","o","f","i","t"," ","a","f","t","e","r"," ","t","a","x">>,
       <<"p","r","o","f","i","t"," ","f","o","r"," ","t","h","e"," ","p","e","r","i","o","d">>,
       <<"t","a","x","a","t","i","o","n">>,
       <<"t","a","x"," ","e","x","p","e","n","s","e">>,
       <<"n","e","t"," ","i","n","t","e","r","e","s","t"," ","i","n","c","o","m","e">>,
       <<"n","o","n","-","i","n","t","e","r","e","s","t"," ","i","n","c","o","m","e">>,
       <<"f","e","e"," ","i","n","c","o","m","e">>,
       <<"p","r","o","f","i","t"," ","f","r","o","m"," ","a","s","s","o","c","i","a","t","e","s">>,
       <<"p","r","o","f","i","t"," ","f","r","o","m"," ","j","o","i","n","t"," ","v","e","n","t","u","r","e","s">>,
       <<"p","r","o","f","i","t"," ","a","t","t","r","i","b","u","t","a","b","l","e"," ","t","o">>,
       <<"p","r","o","f","i","t"," ","a","t","t","r","i","b","u","t","a","b","l","e"," ","t","o"," ","p","a","r","e","n","t">>,
       <<"p","r","o","f","i","t"," ","a","t","t","r","i","b","u","t","a","b","l","e"," ","t","o"," ","o","r","d","i","n","a","r","y"," ","s","h","a","r","e","h","o","l","d","e","r","s">>,
       <<"c","o","s","t"," ","t","o"," ","i","n","c","o","m","e"," ","r","a","t","i","o">>,
       <<"r","e","t","u","r","n"," ","o","n">>,
       <<"n","e","t"," ","i","n","t","e","r","e","s","t"," ","m","a","r","g","i","n">>,
       <<"e","a","r","n","i","n","g","s"," ","p","e","r"," ","s","h","a","r","e">>,
       <<"e","p","s">>,
       <<"n","e","t"," ","a","s","s","e","t"," ","v","a","l","u","e">>,
       <<"t","a","n","g","i","b","l","e"," ","n","e","t"," ","a","s","s","e","t"," ","v","a","l","u","e">>,
       <<"t","o","t","a","l"," ","a","s","s","e","t","s">>,
       <<"t","o","t","a","l"," ","e","q","u","i","t","y">>,
       <<"t","o","t","a","l"," ","l","i","a","b","i","l","i","t","i","e","s">>,
       <<"t","o","t","a","l"," ","c","a","p","i","t","a","l">>,
       <<"l","o","a","n","s"," ","a","n","d"," ","a","d","v","a","n","c","e","s">>,
       <<"c","u","s","t","o","m","e","r"," ","a","c","c","o","u","n","t","s">>,
       <<"d","e","p","o","s","i","t","s">>,
       <<"r","i","s","k"," ","w","e","i","g","h","t","e","d"," ","a","s","s","e","t","s">>,
       <<"c","o","m","m","o","n"," ","e","q","u","i","t","y"," ","t","i","e","r">>,
       <<"c","e","t","1">>,
       <<"l","e","v","e","r","a","g","e"," ","r","a","t","i","o">>,
       <<"l","i","q","u","i","d","i","t","y"," ","c","o","v","e","r","a","g","e"," ","r","a","t","i","o">>,
       <<"a","d","v","a","n","c","e","s","-","t","o","-","d","e","p","o","s","i","t","s"," ","r","a","t","i","o">>,
       <<"t","i","e","r"," ","1"," ","c","a","p","i","t","a","l">>,
       <<"t","i","e","r"," ","2"," ","c","a","p","i","t","a","l">>,
       <<"r","e","g","u","l","a","t","o","r","y"," ","c","a","p","i","t","a","l">>,
       <<"n","u","m","b","e","r"," ","o","f"," ","o","r","d","i","n","a","r","y"," ","s","h","a","r","e","s">>,
       <<"s","h","a","r","e","s"," ","o","u","t","s","t","a","n","d","i","n","g">>,
       <<"d","i","v","i","d","e","n","d"," ","p","e","r"," ","s","h","a","r","e">> >>

EXCLUSION_PHRASES ==
    << [phrase |-> <<"t","i","e","r"," ","1">>, exclude_nums |-> {<<"1">>}],
       [phrase |-> <<"t","i","e","r"," ","2">>, exclude_nums |-> {<<"2">>}],
       [phrase |-> <<"t","i","e","r"," ","3">>, exclude_nums |-> {<<"3">>}],
       [phrase |-> <<"c","o","m","m","o","n"," ","e","q","u","i","t","y"," ","t","i","e","r"," ","1">>, exclude_nums |-> {<<"1">>}],
       [phrase |-> <<"c","o","m","m","o","n"," ","e","q","u","i","t","y"," ","t","i","e","r"," ","2">>, exclude_nums |-> {<<"2">>}],
       [phrase |-> <<"c","o","m","m","o","n"," ","e","q","u","i","t","y"," ","t","i","e","r"," ","3">>, exclude_nums |-> {<<"3">>}],
       [phrase |-> <<"c","e","t","1">>, exclude_nums |-> {<<"1">>}],
       [phrase |-> <<"c","e","t"," ","1">>, exclude_nums |-> {<<"1">>}],
       [phrase |-> <<"l","e","v","e","l"," ","1">>, exclude_nums |-> {<<"1">>}],
       [phrase |-> <<"l","e","v","e","l"," ","2">>, exclude_nums |-> {<<"2">>}],
       [phrase |-> <<"l","e","v","e","l"," ","3">>, exclude_nums |-> {<<"3">>}],
       [phrase |-> <<"q","1">>, exclude_nums |-> {<<"1">>}],
       [phrase |-> <<"q","2">>, exclude_nums |-> {<<"2">>}],
       [phrase |-> <<"q","3">>, exclude_nums |-> {<<"3">>}],
       [phrase |-> <<"q","4">>, exclude_nums |-> {<<"4">>}],
       [phrase |-> <<"q","u","a","r","t","e","r"," ","1">>, exclude_nums |-> {<<"1">>}],
       [phrase |-> <<"q","u","a","r","t","e","r"," ","2">>, exclude_nums |-> {<<"2">>}],
       [phrase |-> <<"q","u","a","r","t","e","r"," ","3">>, exclude_nums |-> {<<"3">>}],
       [phrase |-> <<"q","u","a","r","t","e","r"," ","4">>, exclude_nums |-> {<<"4">>}] >>

\* The keywords that make a line a section heading.
SECTION_KEYWORDS ==
    << <<"u","n","d","e","r","l","y","i","n","g"," ","p","e","r","f","o","r","m","a","n","c","e">>,
       <<"r","e","p","o","r","t","e","d"," ","p","e","r","f","o","r","m","a","n","c","e">>,
       <<"b","a","l","a","n","c","e"," ","s","h","e","e","t">>,
       <<"i","n","f","o","r","m","a","t","i","o","n"," ","p","e","r"," ","o","r","d","i","n","a","r","y">> >>

\* LINE_ITEM_PATTERN = ^([^:\d]+?):\s*(.+)$ applied with match(): the first
\* colon of the line, at least one character before it and none of them a
\* digit, at least one character after it.  The result tells whether the
\* line matched and, if so, holds the two groups.
LINE_ITEM_PATTERN_match(s) ==
    Bind(find(s, <<":">>, 0), LAMBDA c :
        IF c < 1 \/ c + 1 >= Len(s) \/ (\E i \in 1..c : isdigit(s[i]))
        THEN [matched |-> FALSE]
        ELSE Bind(SpanEnd(s, c + 1, Whitespace), LAMBDA ws :
                \* \s* gives one character back when nothing is left for (.+)
                [matched |-> TRUE,
                 group1 |-> Slice(s, 0, c),
                 group2 |-> SliceFrom(s, IF ws >= Len(s) THEN Len(s) - 1 ELSE ws)]))

-----------------------------------------------------------------------------
(* NumberScanner: extract_numbers_smart                                    *)

\* Every occurrence (overlapping ones too) of every exclusion phrase in the
\* lower-cased text.
exclusion_matches(txt) ==
    Bind(lower(txt), LAMBDA text_lower :
        { [phrase |-> EXCLUSION_PHRASES[kp[1]].phrase,
           start |-> kp[2],
           end |-> kp[2] + Len(EXCLUSION_PHRASES[kp[1]].phrase),
           exclude_nums |-> EXCLUSION_PHRASES[kp[1]].exclude_nums] :
             kp \in {x \in (DOMAIN EXCLUSION_PHRASES) \X (0..Len(txt)) :
                       OccursAt(text_lower, EXCLUSION_PHRASES[x[1]].phrase, x[2])} })

SkipOpt(s, p, c) == IF p < Len(s) /\ s[p + 1] = c THEN p + 1 ELSE p

\* The unit suffix (?:\s*(?:bps|%|[kmb]))? after offset p, case-insensitive:
\* where the match ends.
SuffixEnd(s, p) ==
    Bind(SpanEnd(s, p, Whitespace), LAMBDA q :
    Bind(Slice(s, q, q + 3), LAMBDA next3 :
    Bind(lower(next3), LAMBDA l :
        IF l = <<"b","p","s">> THEN q + 3
        ELSE IF Len(l) >= 1 /\ l[1] \in {"%", "k", "m", "b"} THEN q + 1
        ELSE p)))

\* ALL_NUMBER_PATTERN = \(?-?\$?\d[\d,]*(?:\.\d+)?\)?(?:\s*(?:bps|%|[kmb]))?
\* tried at offset p: the end of the match, or -1.
ALL_NUMBER_PATTERN_match(s, p) ==
    Bind(SkipOpt(s, SkipOpt(s, SkipOpt(s, p, "("), "-"), "$"), LAMBDA p3 :
        IF ~(p3 < Len(s) /\ isdigit(s[p3 + 1])) THEN 0 - 1
        ELSE Bind(SpanEnd(s, p3 + 1, Digits \cup {","}), LAMBDA p4 :
             Bind(IF p4 + 1 < Len(s) /\ s[p4 + 1] = "." /\ isdigit(s[p4 + 2])
                  THEN SpanEnd(s, p4 + 2, Digits)
                  ELSE p4, LAMBDA p5 :
             Bind(SkipOpt(s, p5, ")"), LAMBDA p6 : SuffixEnd(s, p6)))))

RECURSIVE finditer_from(_, _)
\* ALL_NUMBER_PATTERN.finditer(text): the non-overlapping matches, left to right.
finditer_from(s, p) ==
    IF p >= Len(s) THEN << >>
    ELSE Bind(ALL_NUMBER_PATTERN_match(s, p), LAMBDA e :
             IF e = 0 - 1 THEN finditer_from(s, p + 1)
             ELSE << [start |-> p, end |-> e] >> \o finditer_from(s, e))

finditer(s) == finditer_from(s, 0)

\* re.sub(r'[^\d]', '', num_text)
num_digits(num_text) == SelectSeq(num_text, isdigit)

\* CHECK 1 with the end of the phrase left out of its span.
in_exclusion_phrase_strict_end(txt, excl_matches, m) ==
    \E digits \in {num_digits(Slice(txt, m.start, m.end))} :
        \E excl \in excl_matches :
            /\ m.start >= excl.start
            /\ m.end < excl.end
            /\ digits \in excl.exclude_nums

\* CHECK 1: the match lies inside an exclusion phrase that excludes its digits.
in_exclusion_phrase(txt, excl_matches, m) ==
    \E digits \in {num_digits(Slice(txt, m.start, m.end))} :
        \E excl \in excl_matches :
            /\ m.start >= excl.start
            /\ m.end <= excl.end
            /\ digits \in excl.exclude_nums

SpecialChars == {")", "]", "}", ">", ".", ",", ";", ":", "!", "?", "\"", "'"}

\* re.search(r'[)\]}>.,;:!?"\']\d+$', context)
special_then_digits_at_end(context) ==
    \E i \in 1..(Len(context) - 1) :
        /\ context[i] \in SpecialChars
        /\ \A j \in (i + 1)..Len(context) : isdigit(context[j])

\* CHECK 2 looking only at the character after the match.
attached_after_only(txt, m) ==
    \E after_char \in {IF m.end < Len(txt) THEN txt[m.end + 1] ELSE " "} :
        /\ isalpha(after_char)
        /\ (lower_char(after_char) \in {"k", "m", "b"}
               => m.end + 1 < Len(txt) /\ isalpha(txt[m.end + 2]))

\* CHECK 2: the match is attached to a word or to a special character.
attached(txt, m) ==
    \E before_char \in {IF m.start > 0 THEN txt[m.start] ELSE " "} :
    \E after_char \in {IF m.end < Len(txt) THEN txt[m.end + 1] ELSE " "} :
        IF isalpha(before_char) \/ isalpha(after_char)
        THEN IF isalpha(after_char)
             THEN \* suffix = text[end_pos:].lower()
                  \* suffix.startswith(('k', 'm', 'b', 'bps'))
                  IF lower_char(after_char) \in {"k", "m", "b"}
                  THEN \* len(suffix) > 1 and suffix[1].isalpha()
                       m.end + 1 < Len(txt) /\ isalpha(lower_char(txt[m.end + 2]))
                  ELSE TRUE
             ELSE TRUE
        ELSE IF before_char \in SpecialChars
             THEN \E context \in
                      {Slice(txt, IF m.start - 5 > 0 THEN m.start - 5 ELSE 0, m.start)} :
                      special_then_digits_at_end(context)
             ELSE FALSE

is_excluded(txt, excl_matches, m) ==
    in_exclusion_phrase(txt, excl_matches, m) \/ attached(txt, m)

\* The facts the scanning loop establishes for each match, in match order.
scan_matches(txt) ==
    Bind(finditer(txt), LAMBDA ms :
    Bind(exclusion_matches(txt), LAMBDA ex :
        [i \in DOMAIN ms |->
            [num_text |-> strip(Slice(txt, ms[i].start, ms[i].end)),
             start |-> ms[i].start,
             end |-> ms[i].end,
             is_excluded |-> is_excluded(txt, ex, ms[i])]]))

\* The loop body without its else: an excluded token is appended to
\* regular_numbers too.
scan_step_both(acc, tok) ==
    [regular_numbers |-> Append(acc.regular_numbers, tok.num_text),
     excluded_numbers |->
        IF tok.is_excluded THEN Append(acc.excluded_numbers, tok.num_text)
        ELSE acc.excluded_numbers,
     all_numbers |-> Append(acc.all_numbers, tok.num_text)]

\* The loop body putting the token at the front of all_numbers.
scan_step_all_reversed(acc, tok) ==
    [regular_numbers |->
        IF tok.is_excluded THEN acc.regular_numbers
        ELSE Append(acc.regular_numbers, tok.num_text),
     excluded_numbers |->
        IF tok.is_excluded THEN Append(acc.excluded_numbers, tok.num_text)
        ELSE acc.excluded_numbers,
     all_numbers |-> << tok.num_text >> \o acc.all_numbers]

\* One iteration of the loop over the matches: the token goes to
\* all_numbers and to exactly one of excluded_numbers and regular_numbers.
scan_step(acc, tok) ==
    [regular_numbers |->
        IF tok.is_excluded THEN acc.regular_numbers
        ELSE Append(acc.regular_numbers, tok.num_text),
     excluded_numbers |->
        IF tok.is_excluded THEN Append(acc.excluded_numbers, tok.num_text)
        ELSE acc.excluded_numbers,
     all_numbers |-> Append(acc.all_numbers, tok.num_text)]

RECURSIVE scan_loop(_, _)
\* The three lists after the first i matches.
scan_loop(toks, i) ==
    IF i = 0
    THEN [regular_numbers |-> << >>, excluded_numbers |-> << >>, all_numbers |-> << >>]
    ELSE Bind(scan_loop(toks, i - 1), LAMBDA acc : scan_step(acc, toks[i]))

extract_numbers_smart(txt) ==
    Bind(scan_matches(txt), LAMBDA toks : scan_loop(toks, Len(toks)))

-----------------------------------------------------------------------------
(* ConsecutivenessAnalyzer: count_consecutive_regular_numbers              *)

DigitChars == << "0","1","2","3","4","5","6","7","8","9" >>

RECURSIVE str(_)
\* str(i) for i >= 0
str(i) ==
    IF i < 10 THEN << DigitChars[i + 1] >>
    ELSE str(i \div 10) \o << DigitChars[(i % 10) + 1] >>

\* f"__NUM_{i}__"
marker(i) == <<"_","_","N","U","M","_">> \o str(i) \o <<"_","_">>

RECURSIVE substitute_markers(_, _, _)
\* for i, num in enumerate(regular_numbers):
\*     test_text = test_text.replace(num, marker, 1)
\* The text after the first k numbers have been replaced; the k-th number
\* is replaced by marker(k - 1).
substitute_markers(txt, regular_numbers, k) ==
    IF k = 0 THEN txt
    ELSE Bind(substitute_markers(txt, regular_numbers, k - 1), LAMBDA test_text :
         Bind(marker(k - 1), LAMBDA mk :
             replace_first(test_text, regular_numbers[k], mk)))

\* marker_positions: the markers still found in test_text, each with the
\* offset test_text.find(marker) gives.
marker_positions(test_text, n) ==
    Bind([i \in 0..(n - 1) |-> Bind(marker(i), LAMBDA mk : find(test_text, mk, 0))],
         LAMBDA pos :
             { [pos |-> pos[i], marker |-> marker(i)] :
                 i \in {j \in 0..(n - 1) : pos[j] # 0 - 1} })

\* marker_positions.sort(key=lambda x: x[0]); the markers in that order.
markers_in_order(positions) ==
    [k \in 1..Cardinality(positions) |->
        (CHOOSE x \in positions :
            Cardinality({y \in positions : y.pos < x.pos}) = k - 1).marker]

RECURSIVE markers_run_at(_, _, _, _)
\* The markers ms[k..] occur from offset p on with only whitespace between them.
markers_run_at(s, ms, k, p) ==
    \E mk \in {ms[k]} :
        /\ OccursAt(s, mk, p)
        /\ \/ k = Len(ms)
           \/ \E q \in {SpanEnd(s, p + Len(mk), Whitespace)} :
                  markers_run_at(s, ms, k + 1, q)

\* re.search(r'\s*'.join(re.escape(m) for m in ms), test_text)
search_markers(ms, test_text) ==
    \E p \in 0..Len(test_text) : markers_run_at(test_text, ms, 1, p)

\* The inner loop for one start: end runs upward and stops at the first
\* sequence that is not consecutive.  The longest length found, 0 if none.
longest_from(ms, test_text, start) ==
    Bind({end \in (start + 1)..Len(ms) :
             \E seq_markers \in {SubSeq(ms, start, end)} :
                 search_markers(seq_markers, test_text)},
         LAMBDA consec :
             Bind({end \in (start + 1)..Len(ms) : \A e \in (start + 1)..end : e \in consec},
                  LAMBDA good : IF good = {} THEN 0 ELSE Max(good) - start + 1))

\* The loop over the starts with max_consecutive starting at 0.
longest_consecutive_from_zero(ms, test_text) ==
    Max({0} \cup {longest_from(ms, test_text, start) : start \in 1..Len(ms)})

\* The search that tries the first start only.
longest_consecutive_first_start(ms, test_text) ==
    Max({1, longest_from(ms, test_text, 1)})

\* max_consecutive = 1, then the loop over the starts.
longest_consecutive(ms, test_text) ==
    Max({1} \cup {longest_from(ms, test_text, start) : start \in 1..Len(ms)})

\* The body of count_consecutive_regular_numbers once the regular numbers
\* of txt are known.
count_consecutive_of(txt, regular_numbers) ==
    IF Len(regular_numbers) <= 1 THEN Len(regular_numbers)
    ELSE Bind(substitute_markers(txt, regular_numbers, Len(regular_numbers)),
              LAMBDA test_text :
         Bind(marker_positions(test_text, Len(regular_numbers)), LAMBDA positions :
         Bind(markers_in_order(positions), LAMBDA ms :
             IF Len(ms) <= 1 THEN Len(ms)
             ELSE IF search_markers(ms, test_text) THEN Len(ms)
             ELSE longest_consecutive(ms, test_text))))

count_consecutive_regular_numbers(txt) ==
    Bind(extract_numbers_smart(txt), LAMBDA nums :
        count_consecutive_of(txt, nums.regular_numbers))

-----------------------------------------------------------------------------
(* LineClassifier: is_financial_line, get_regex_pattern and the body of    *)
(* the line loop of extract_all_financial_data                             *)

has_financial_term(line) ==
    \E line_lower \in {lower(line)} :
        \E k \in DOMAIN FINANCIAL_TERMS : contains(line_lower, FINANCIAL_TERMS[k])

\* The keep test without its last test, the one on the regular numbers.
is_financial_line_without_numbers(line) ==
    \/ LINE_ITEM_PATTERN_match(line).matched
    \/ has_financial_term(line)

is_financial_line(line) ==
    \/ LINE_ITEM_PATTERN_match(line).matched
    \/ has_financial_term(line)
    \/ Len(extract_numbers_smart(line).regular_numbers) >= 2

get_regex_pattern(txt) ==
    IF LINE_ITEM_PATTERN_match(txt).matched THEN << "LINE_ITEM_PATTERN" >>
    ELSE Bind(extract_numbers_smart(txt), LAMBDA nums :
         Bind(Len(nums.regular_numbers), LAMBDA n :
             IF n >= 3 THEN << "ENDS_WITH_REGULAR_NUMBERS", n >>
             ELSE IF n = 2 THEN << "TWO_REGULAR_NUMBERS" >>
             ELSE IF n = 1 THEN << "SINGLE_REGULAR_NUMBER" >>
             ELSE IF Len(nums.excluded_numbers) > 0
                  THEN << "EXCLUDED_NUMBERS", Len(nums.excluded_numbers) >>
             ELSE IF has_financial_term(txt) THEN << "FINANCIAL_TERM_MATCH" >>
             ELSE << "NO_PATTERN_MATCH" >>))

\* any(keyword in line_lower for keyword in [...])
is_section_heading(line_clean) ==
    \E line_lower \in {lower(line_clean)} :
        \E k \in DOMAIN SECTION_KEYWORDS : contains(line_lower, SECTION_KEYWORDS[k])

\* re.sub(r'[:\-]+$', '', label)
strip_trailing_colons_dashes(s) ==
    Bind({i \in DOMAIN s : s[i] \notin {":", "-"}},
         LAMBDA keep : IF keep = {} THEN << >> ELSE SubSeq(s, 1, Max(keep)))

label_char(c) ==
    isalpha(c) \/ isdigit(c) \/ isspace(c) \/ c \in {"-", "(", ")", "[", "]"}

\* re.sub(r'[^a-zA-Z0-9\s\-\(\)\[\]]', '', label).strip()
clean_label(label) == Bind(SelectSeq(label, label_char), LAMBDA kept : strip(kept))

\* The label of a line without the colon pattern: the text before the place
\* where line_clean.find(first_num) finds the first regular number.
label_before_first_number(line_clean, regular_nums) ==
    Bind(regular_nums[1], LAMBDA first_num :
    Bind(find(line_clean, first_num, 0), LAMBDA num_pos :
        IF num_pos > 0
        THEN Bind(Slice(line_clean, 0, num_pos), LAMBDA before :
             Bind(strip(before), LAMBDA l1 :
             Bind(strip_trailing_colons_dashes(l1), LAMBDA l2 :
                 [label |-> strip(l2), match_type |-> "NUMBER_START_DETECTED"])))
        ELSE [label |-> line_clean, match_type |-> "FULL_LINE_EXTRACTION"]))

\* The branch on LINE_ITEM_PATTERN with the line cut at its last colon that
\* has text after it, instead of its first colon.
split_line_at_last_colon(line_clean) ==
    Bind(LINE_ITEM_PATTERN_match(line_clean), LAMBDA match :
        IF match.matched
        THEN Bind(Max({c \in 1..(Len(line_clean) - 1) : line_clean[c] = ":"}), LAMBDA c :
             Bind(strip(SubSeq(line_clean, 1, c - 1)), LAMBDA label :
             Bind(strip(SubSeq(line_clean, c + 1, Len(line_clean))), LAMBDA values_text :
                 [label |-> label,
                  nums |-> extract_numbers_smart(values_text),
                  match_type |-> "COLON_SEPARATED"])))
        ELSE Bind(extract_numbers_smart(line_clean), LAMBDA nums :
                 IF Len(nums.regular_numbers) > 0
                 THEN Bind(label_before_first_number(line_clean, nums.regular_numbers),
                           LAMBDA l :
                           [label |-> l.label, nums |-> nums, match_type |-> l.match_type])
                 ELSE [label |-> line_clean, nums |-> nums,
                       match_type |-> "NO_REGULAR_NUMBERS"]))

\* The branch on LINE_ITEM_PATTERN: the raw label, the scanned numbers and
\* the extraction method.
split_line(line_clean) ==
    Bind(LINE_ITEM_PATTERN_match(line_clean), LAMBDA match :
        IF match.matched
        THEN Bind(strip(match.group1), LAMBDA label :
             Bind(strip(match.group2), LAMBDA values_text :
                 [label |-> label,
                  nums |-> extract_numbers_smart(values_text),
                  match_type |-> "COLON_SEPARATED"]))
        ELSE Bind(extract_numbers_smart(line_clean), LAMBDA nums :
                 IF Len(nums.regular_numbers) > 0
                 THEN Bind(label_before_first_number(line_clean, nums.regular_numbers),
                           LAMBDA l :
                           [label |-> l.label, nums |-> nums, match_type |-> l.match_type])
                 ELSE [label |-> line_clean, nums |-> nums,
                       match_type |-> "NO_REGULAR_NUMBERS"]))

\* ', '.join(label_exclusion_phrases[:3]) if label_exclusion_phrases else 'None':
\* the first three configured phrases found in the lower-cased label.
label_exclusion_phrases(label) ==
    Bind(lower(label), LAMBDA label_lower :
    Bind(SelectSeq([k \in DOMAIN EXCLUSION_PHRASES |-> EXCLUSION_PHRASES[k].phrase],
                   LAMBDA ph : contains(label_lower, ph)), LAMBDA found :
        IF Len(found) = 0 THEN << None >>
        ELSE SubSeq(found, 1, IF Len(found) > 3 THEN 3 ELSE Len(found))))

\* The dictionary appended to all_data.
make_record(line_clean, page, section, parts, label, regular_consecutive) ==
    [page |-> page,
     section |-> section,
     label |-> label,
     label_exclusion_phrases |-> label_exclusion_phrases(label),
     regular_numbers |-> parts.nums.regular_numbers,
     excluded_numbers |-> parts.nums.excluded_numbers,
     all_numbers |-> parts.nums.all_numbers,
     regular_number_count |-> Len(parts.nums.regular_numbers),
     excluded_number_count |-> Len(parts.nums.excluded_numbers),
     total_number_count |-> Len(parts.nums.all_numbers),
     regular_consecutive_numbers |-> regular_consecutive,
     pattern_type |-> get_regex_pattern(line_clean),
     extraction_method |-> parts.match_type,
     raw_line |-> line_clean,
     verification |-> << regular_consecutive, Len(parts.nums.regular_numbers) >>]

\* The records one cleaned line adds to all_data: none or one.
\* The records of a line when the test on the cleaned label is left out.
line_records_keeping_empty_label(line_clean, page, section) ==
    IF ~is_financial_line(line_clean) THEN << >>
    ELSE Bind(split_line(line_clean), LAMBDA parts :
         Bind(clean_label(parts.label), LAMBDA label :
         Bind(count_consecutive_regular_numbers(line_clean), LAMBDA regular_consecutive :
             << make_record(line_clean, page, section, parts, label,
                            regular_consecutive) >>)))

line_records(line_clean, page, section) ==
    IF ~is_financial_line(line_clean) THEN << >>
    ELSE Bind(split_line(line_clean), LAMBDA parts :
         Bind(clean_label(parts.label), LAMBDA label :
             IF Len(label) = 0 THEN << >>
             ELSE Bind(count_consecutive_regular_numbers(line_clean),
                       LAMBDA regular_consecutive :
                       << make_record(line_clean, page, section, parts, label,
                                      regular_consecutive) >>)))

-----------------------------------------------------------------------------
(* TableGrouper: group_into_tables_fast                                    *)

\* A change flag that looks at the regular count only.
group_change_regular_only(rows) ==
    [i \in DOMAIN rows |->
        \/ i = 1
        \/ rows[i].Regular_Count # rows[i - 1].Regular_Count]

\* df['_group_change']: shift() puts NaN before the first row, and a count
\* differs from NaN, so the first row always starts a group.
group_change(rows) ==
    [i \in DOMAIN rows |->
        \/ i = 1
        \/ rows[i].Regular_Count # rows[i - 1].Regular_Count
        \/ rows[i].Consecutive_Count # rows[i - 1].Consecutive_Count]

\* The group id without the running sum: the change flag as 1 or 0.
group_id_no_cumsum(rows) ==
    Bind(group_change(rows), LAMBDA change :
        [i \in DOMAIN rows |-> IF change[i] THEN 1 ELSE 0])

\* df['_group_id'] = df['_group_change'].cumsum()
group_id(rows) ==
    Bind(group_change(rows), LAMBDA change :
        [i \in DOMAIN rows |-> Cardinality({j \in 1..i : change[j]})])

\* The rows of rows whose index is in keep, in order.
rows_at(rows, keep) ==
    Bind(Sorted(keep), LAMBDA idx : [k \in DOMAIN idx |-> rows[idx[k]]])

\* The grouping that keeps only the groups of two rows or more.
group_into_tables_min2(rows) ==
    IF Len(rows) = 0 THEN << >>
    ELSE Bind(group_id(rows), LAMBDA gid :
         Bind(Sorted({g \in Range(gid) : Cardinality({i \in DOMAIN rows : gid[i] = g}) >= 2}),
              LAMBDA ids :
             [t \in DOMAIN ids |-> rows_at(rows, {i \in DOMAIN rows : gid[i] = ids[t]})]))

\* The grouping without its guard on the empty frame, giving one table
\* without rows.
group_into_tables_one_for_empty(rows) ==
    IF Len(rows) = 0 THEN << << >> >>
    ELSE Bind(group_id(rows), LAMBDA gid :
         Bind(Sorted(Range(gid)), LAMBDA ids :
             [t \in DOMAIN ids |-> rows_at(rows, {i \in DOMAIN rows : gid[i] = ids[t]})]))

\* for group_id, group in df.groupby('_group_id'): one table per group id,
\* in increasing id order, each holding its rows in their original order.
group_into_tables_fast(rows) ==
    IF Len(rows) = 0 THEN << >>
    ELSE Bind(group_id(rows), LAMBDA gid :
         Bind(Sorted(Range(gid)), LAMBDA ids :
             [t \in DOMAIN ids |-> rows_at(rows, {i \in DOMAIN rows : gid[i] = ids[t]})]))

RECURSIVE Flatten(_)
\* The rows of a list of tables, table after table.
Flatten(ts) == IF Len(ts) = 0 THEN << >> ELSE Head(ts) \o Flatten(Tail(ts))

-----------------------------------------------------------------------------
(* ValueParser: parse_value (financialsmarttool.py) and                    *)
(* parse_numeric_value (cleantables.py, cleantablenow.py)                  *)
(*                                                                         *)
(* A float is modelled by its decimal value: [kind |-> "float", neg, mant, *)
(* exp] is (-1)^neg * mant * 10^exp with mant not divisible by 10, so that *)
(* equal values have equal records; the binary rounding of a float is not  *)
(* modelled.                                                               *)

\* Python's None where a float is expected.
NoneValue == [kind |-> "None"]

\* float('nan')
NaN == [kind |-> "nan"]

\* What float() raises on a string that is not a number.
ValueError == [kind |-> "ValueError"]

RECURSIVE normalize(_, _, _)
\* The float of value (-1)^neg * mant * 10^exp.
normalize(neg, mant, exp) ==
    IF mant = 0 THEN [kind |-> "float", neg |-> FALSE, mant |-> 0, exp |-> 0]
    ELSE IF mant % 10 = 0 THEN normalize(neg, mant \div 10, exp + 1)
    ELSE [kind |-> "float", neg |-> neg, mant |-> mant, exp |-> exp]

\* x * 10^k (x / 100 is times_pow10(x, -2)); nan stays nan.
times_pow10(x, k) ==
    IF x.kind = "float" THEN normalize(x.neg, x.mant, x.exp + k) ELSE x

\* int(c) for a digit c
digit_value(c) == CHOOSE n \in 0..9 : DigitChars[n + 1] = c

RECURSIVE digits_value(_)
\* int(ds) for a string of digits, 0 for the empty string
digits_value(ds) ==
    IF Len(ds) = 0 THEN 0
    ELSE 10 * digits_value(SubSeq(ds, 1, Len(ds) - 1)) + digit_value(ds[Len(ds)])

\* float(s) for an unsigned s: digits with at most one '.', at least one digit.
float_unsigned(neg, s) ==
    Bind({i \in DOMAIN s : s[i] = "."}, LAMBDA dots :
    Bind(SelectSeq(s, isdigit), LAMBDA ds :
        IF \/ Len(ds) = 0
           \/ Cardinality(dots) > 1
           \/ \E i \in DOMAIN s : s[i] \notin Digits \cup {"."}
        THEN ValueError
        ELSE normalize(neg, digits_value(ds),
                       IF dots = {} THEN 0 ELSE 0 - (Len(s) - Max(dots)))))

\* float(s): surrounding whitespace is ignored, one sign is allowed, 'nan'
\* in any case is a float; anything else raises ValueError.
float(s) ==
    Bind(strip(s), LAMBDA t :
    Bind(IF Len(t) > 0 /\ t[1] = "-" THEN SliceFrom(t, 1) ELSE t, LAMBDA body :
        IF lower(body) = <<"n","a","n">> THEN NaN
        ELSE float_unsigned(Len(t) > 0 /\ t[1] = "-", body)))

\* s.startswith(prefix)
startswith(s, prefix) == OccursAt(s, prefix, 0)

\* s.endswith(suffix)
endswith(s, suffix) == OccursAt(s, suffix, Len(s) - Len(suffix))

RECURSIVE remove_all(_, _)
\* s.replace(old, '')
remove_all(s, old) ==
    Bind(find(s, old, 0), LAMBDA pos :
        IF pos = 0 - 1 THEN s
        ELSE Slice(s, 0, pos) \o remove_all(SliceFrom(s, pos + Len(old)), old))

\* re.sub(r'[^\d\.\-]', '', s)
keep_numeric(s) == SelectSeq(s, LAMBDA c : c \in Digits \cup {".", "-"})

\* re.sub(r'[\$,]', '', s)
strip_dollar_comma(s) == SelectSeq(s, LAMBDA c : c \notin {"$", ","})

\* if working.startswith('(') and working.endswith(')'): working = '-' + working[1:-1]
parenthesized_negative(working) ==
    IF startswith(working, <<"(">>) /\ endswith(working, <<")">>)
    THEN <<"-">> \o Slice(working, 1, Len(working) - 1)
    ELSE working

\* The multiplier that takes every unit letter for thousands.
multiplier_exp_thousands(working) ==
    Bind(lower(working), LAMBDA w :
        IF endswith(w, <<"k">>) \/ endswith(w, <<"m">>) \/ endswith(w, <<"b">>) THEN 3 ELSE 0)

\* The exponent of the multiplier of a trailing k, m or b (0 without one).
multiplier_exp(working) ==
    Bind(lower(working), LAMBDA w :
        IF endswith(w, <<"k">>) THEN 3
        ELSE IF endswith(w, <<"m">>) THEN 6
        ELSE IF endswith(w, <<"b">>) THEN 9
        ELSE 0)

\* working[:-1] when a multiplier letter was found
strip_multiplier(working) ==
    IF multiplier_exp(working) = 0 THEN working
    ELSE Slice(working, 0, Len(working) - 1)

\* float(num_str) * 10^k without the except clause: the error gets out.
try_float_unguarded(num_str, k, original) ==
    Bind(float(num_str), LAMBDA num :
        [numeric |-> times_pow10(num, k), display |-> original])

\* try: return float(num_str) * 10^k, original / except: return None, original
try_float(num_str, k, original) ==
    Bind(float(num_str), LAMBDA num :
        IF num = ValueError THEN [numeric |-> NoneValue, display |-> original]
        ELSE [numeric |-> times_pow10(num, k), display |-> original])

\* The strings parse_value takes for "no value".
SENTINELS == { <<"-">>,
      <<"n","m">>,
      <<"n","/","m">>,
      <<"n","a">>,
      <<"n","/","a">>,
      <<"n",".","a",".">> }

\* The bps branch: re.sub(r'[^\d\.\-]', '', s.replace('bps', '')) / 10000
bps_value(s, original) ==
    Bind(remove_all(s, <<"b","p","s">>), LAMBDA s1 :
    Bind(keep_numeric(s1), LAMBDA num_str : try_float(num_str, 0 - 4, original)))

\* The % branch: re.sub(r'[^\d\.\-]', '', s.replace('%', '')) / 100
percent_value(s, original) ==
    Bind(remove_all(s, <<"%">>), LAMBDA s1 :
    Bind(keep_numeric(s1), LAMBDA num_str : try_float(num_str, 0 - 2, original)))

\* parse_value from 'working = original' on: parentheses, $ and commas,
\* the multiplier letter, float.
parse_plain_value(original) ==
    Bind(parenthesized_negative(original), LAMBDA w1 :
    Bind(strip_dollar_comma(w1), LAMBDA w2 :
    Bind(strip_multiplier(w2), LAMBDA w3 :
        try_float(w3, multiplier_exp(w2), original))))

\* parse_value(value) of financialsmarttool.py
parse_value(v) ==
    Bind(strip(v), LAMBDA original :
    Bind(lower(original), LAMBDA low :
        IF Len(original) = 0 \/ low \in SENTINELS
        THEN [numeric |-> NoneValue, display |-> original]
        ELSE IF contains(low, <<"b","p","s">>) THEN bps_value(original, original)
        ELSE IF contains(original, <<"%">>) THEN percent_value(original, original)
        ELSE parse_plain_value(original)))

\* parse_numeric_value from the multipliers on: the multiplier letter, the
\* removal of every character but digits, '.' and '-', float.
parse_plain_numeric(working, original) ==
    Bind(strip_multiplier(working), LAMBDA w1 :
    Bind(keep_numeric(w1), LAMBDA w2 :
        IF Len(w2) = 0 \/ w2 = <<"-">>
        THEN [numeric |-> NoneValue, display |-> original]
        ELSE try_float(w2, multiplier_exp(working), original)))

\* parse_numeric_value(value_str) of cleantables.py and cleantablenow.py
parse_numeric_value(value_str) ==
    IF Len(value_str) = 0 THEN [numeric |-> NoneValue, display |-> << >>]
    ELSE
    Bind(strip(value_str), LAMBDA original :
    Bind(parenthesized_negative(original), LAMBDA working :
        IF contains(lower(working), <<"b","p","s">>) THEN bps_value(working, original)
        ELSE IF contains(working, <<"%">>) THEN percent_value(working, original)
        ELSE parse_plain_numeric(working, original)))

-----------------------------------------------------------------------------
(* TableStructurer: create_structured_table_from_raw (cleantables.py,      *)
(* cleantablenow.py)                                                       *)

\* An empty cell of a sheet, read back as NaN.
NaNCell == << "NaN" >>

RECURSIVE join_quoted(_)
\* ', '.join(repr(n) for n in nums)
join_quoted(nums) ==
    IF Len(nums) = 0 THEN << >>
    ELSE IF Len(nums) = 1 THEN << "'" >> \o nums[1] \o << "'" >>
    ELSE << "'" >> \o nums[1] \o << "'", ",", " " >> \o join_quoted(Tail(nums))

\* str(regular_numbers): what the sheet holds for the list of a record.
repr_list(nums) == << "[" >> \o join_quoted(nums) \o << "]" >>

\* The quote characters of parse_regular_numbers.
QuoteChars == {"'", "\""}

\* The step that ends a number at every comma, quoted or not.
split_step_on_every_comma(cleaned, i, st) ==
    Bind(cleaned[i + 1], LAMBDA char :
        IF char = ","
        THEN [st EXCEPT !.numbers = Append(st.numbers, strip(st.current)),
                        !.current = << >>]
        ELSE [st EXCEPT !.current = Append(st.current, char)])

\* One step of the character loop of parse_regular_numbers: st holds
\* numbers, current, in_quotes and quote_char.
split_step(cleaned, i, st) ==
    Bind(cleaned[i + 1], LAMBDA char :
        IF char \in QuoteChars
        THEN IF ~st.in_quotes
             THEN [st EXCEPT !.in_quotes = TRUE, !.quote_char = char,
                             !.current = Append(st.current, char)]
             ELSE IF char = st.quote_char
             THEN [st EXCEPT !.in_quotes = FALSE, !.quote_char = "",
                             !.current = Append(st.current, char)]
             ELSE [st EXCEPT !.current = Append(st.current, char)]
        ELSE IF char = "," /\ ~st.in_quotes
        THEN IF i + 1 >= Len(cleaned) \/ cleaned[i + 2] = " "
             THEN [st EXCEPT !.numbers = Append(st.numbers, strip(st.current)),
                             !.current = << >>]
             ELSE [st EXCEPT !.current = Append(st.current, char)]
        ELSE [st EXCEPT !.current = Append(st.current, char)])

RECURSIVE split_loop(_, _, _)
\* for i, char in enumerate(cleaned): ...
split_loop(cleaned, i, st) ==
    IF i >= Len(cleaned) THEN st
    ELSE Bind(split_step(cleaned, i, st), LAMBDA st1 : split_loop(cleaned, i + 1, st1))

\* The clean-up of one number: strip, then drop a pair of enclosing quotes.
unquote(num0) ==
    Bind(strip(num0), LAMBDA num :
        IF \E q \in QuoteChars : startswith(num, << q >>) /\ endswith(num, << q >>)
        THEN Slice(num, 1, Len(num) - 1)
        ELSE num)

\* parse_regular_numbers(regular_numbers_str)
parse_regular_numbers(regular_numbers_str) ==
    IF regular_numbers_str = NaNCell THEN << >>
    ELSE
    Bind(strip(regular_numbers_str), LAMBDA c0 :
    Bind(IF startswith(c0, << "[" >>) /\ endswith(c0, << "]" >>)
         THEN Slice(c0, 1, Len(c0) - 1) ELSE c0, LAMBDA cleaned :
    Bind(split_loop(cleaned, 0, [numbers |-> << >>, current |-> << >>,
                                 in_quotes |-> FALSE, quote_char |-> ""]), LAMBDA st :
    Bind(IF Len(st.current) > 0 THEN Append(st.numbers, strip(st.current))
         ELSE st.numbers, LAMBDA numbers :
        [k \in DOMAIN numbers |-> unquote(numbers[k])]))))

\* s without its longest suffix of characters of class C: re.sub(r'[C]+$', '', s)
rstrip_class(s, C) ==
    Bind({i \in DOMAIN s : s[i] \notin C}, LAMBDA keep :
        IF keep = {} THEN << >> ELSE SubSeq(s, 1, Max(keep)))

UpperMap ==
    [c \in Range(LowerLetters) |->
        UpperLetters[CHOOSE i \in DOMAIN LowerLetters : LowerLetters[i] = c]]

upper_char(c) == IF c \in DOMAIN UpperMap THEN UpperMap[c] ELSE c

\* word.isupper(): a cased character, and no lower-case one
isupper(word) ==
    /\ \E i \in DOMAIN word : word[i] \in Range(UpperLetters)
    /\ \A i \in DOMAIN word : word[i] \notin Range(LowerLetters)

\* word.title(): a letter that follows no letter is upper-cased, the
\* others are lower-cased.
title(word) ==
    [i \in DOMAIN word |->
        IF i = 1 \/ ~isalpha(word[i - 1]) THEN upper_char(word[i]) ELSE lower_char(word[i])]

RECURSIVE split(_)
\* label.split(): the words between the runs of whitespace
split(s) ==
    Bind({i \in DOMAIN s : ~isspace(s[i])}, LAMBDA solid :
        IF solid = {} THEN << >>
        ELSE Bind(Min(solid), LAMBDA first :
             Bind(SpanEnd(s, first - 1, {c \in Range(s) : ~isspace(c)}), LAMBDA stop :
                 << Slice(s, first - 1, stop) >> \o split(SliceFrom(s, stop)))))

RECURSIVE join_words(_)
\* ' '.join(words)
join_words(ws) ==
    IF Len(ws) = 0 THEN << >>
    ELSE IF Len(ws) = 1 THEN ws[1]
    ELSE ws[1] \o << " " >> \o join_words(Tail(ws))

\* clean_label(label) of cleantables.py: trailing punctuation removed, the
\* words title-cased unless they are upper-case or start with a digit.
table_clean_label(label) ==
    IF label = NaNCell THEN << >>
    ELSE
    Bind(strip(label), LAMBDA l1 :
    Bind(rstrip_class(l1, {":", ";", ",", "-"} \cup Whitespace), LAMBDA l2 :
    Bind(split(l2), LAMBDA words :
        join_words([k \in DOMAIN words |->
            IF ~isdigit(words[k][1]) /\ ~isupper(words[k]) THEN title(words[k])
            ELSE words[k]]))))

\* The label of a row: its Label cell, or, when that cell is empty, its
\* Raw_Line without the numbers at its end.
row_label(row) ==
    IF row.Label # NaNCell THEN strip(row.Label)
    ELSE Bind(rstrip_class(row.Raw_Line,
                           Digits \cup {"-", ",", "$", "(", ")", "%"} \cup Whitespace),
              LAMBDA l : strip(l))

\* The most frequent count, the one seen last among the most frequent.
most_common_last_seen(counts) ==
    Bind([v \in Range(counts) |-> Cardinality({i \in DOMAIN counts : counts[i] = v})],
         LAMBDA freq :
    Bind(Max({i \in DOMAIN counts : \A w \in Range(counts) : freq[counts[i]] >= freq[w]}),
         LAMBDA last : counts[last]))

\* Counter(counts).most_common(1)[0][0]: the most frequent count, the one
\* seen first among the most frequent.
most_common(counts) ==
    Bind([v \in Range(counts) |-> Cardinality({i \in DOMAIN counts : counts[i] = v})],
         LAMBDA freq :
    Bind(Min({i \in DOMAIN counts : \A w \in Range(counts) : freq[counts[i]] >= freq[w]}),
         LAMBDA first : counts[first]))

\* most_common_count: the count all rows agree on, or the most common one.
most_common_count(parsed_lists) ==
    Bind([i \in DOMAIN parsed_lists |-> Len(parsed_lists[i])], LAMBDA counts :
        IF Cardinality(Range(counts)) # 1 THEN most_common(counts) ELSE counts[1])

\* [f'Value{i+1}' for i in range(n)]
value_names(n) == [i \in 1..n |-> <<"V","a","l","u","e">> \o str(i)]

\* The column names that are Value1..ValueN for every count.
column_names_all_values(n) == value_names(n)

\* column_names for most_common_count = n
column_names(n) ==
    IF n = 3 THEN << <<"C","u","r","r","e","n","t">>, <<"P","r","i","o","r">>, <<"C","h","a","n","g","e">> >>
    ELSE IF n = 4 THEN << <<"Q","1">>, <<"Q","2">>, <<"Q","3">>, <<"Q","4">> >>
    ELSE IF n = 2 THEN << <<"C","u","r","r","e","n","t">>, <<"P","r","i","o","r">> >>
    ELSE value_names(n)

\* Pad or truncate to match column count.
pad_or_truncate(parsed_numbers, n) ==
    IF Len(parsed_numbers) > n THEN SubSeq(parsed_numbers, 1, n)
    ELSE parsed_numbers \o [i \in 1..(n - Len(parsed_numbers)) |-> << >>]

\* zip(column_names, parsed_numbers)
zip(names, values) ==
    [i \in 1..Min({Len(names), Len(values)}) |-> [column |-> names[i], value |-> values[i]]]

\* json.dumps(metadata) for metadata = {'Page': int(row['Page']), 'Section':
\* str(row['Section'])}: the Page cell holds the page number, an empty
\* Section cell gives '', and a section is written as it is, which holds
\* for the sections without quote or backslash.
metadata_json(row) ==
    <<"{","\"","P","a","g","e","\"",":"," ">> \o str(row.Page)
        \o <<","," ","\"","S","e","c","t","i","o","n","\"",":"," ","\"">> \o (IF row.Section = NaNCell THEN << >> ELSE row.Section)
        \o <<"\"","}">>

\* row_dict of one row: the 'Line Item', the value columns and '_metadata'.
row_dict(row, parsed_numbers, names, n) ==
    [Line_Item |-> table_clean_label(row_label(row)),
     values |-> zip(names, pad_or_truncate(parsed_numbers, n)),
     _metadata |-> metadata_json(row)]

\* The structuring that leaves out the rows whose count is not the column
\* count.
create_structured_table_matching_only(rows) ==
    IF Len(rows) = 0 THEN << >>
    ELSE
    Bind([i \in DOMAIN rows |-> parse_regular_numbers(rows[i].Regular_Numbers)], LAMBDA parsed_lists :
    Bind(most_common_count(parsed_lists), LAMBDA n :
    Bind(column_names(n), LAMBDA names :
    Bind(Sorted({i \in DOMAIN rows : Len(parsed_lists[i]) = n}), LAMBDA keep :
        [k \in DOMAIN keep |-> row_dict(rows[keep[k]], parsed_lists[keep[k]], names, n)]))))

\* create_structured_table_from_raw(table_df, table_num)
create_structured_table_from_raw(rows) ==
    IF Len(rows) = 0 THEN << >>
    ELSE
    Bind([i \in DOMAIN rows |-> parse_regular_numbers(rows[i].Regular_Numbers)], LAMBDA parsed_lists :
    Bind(most_common_count(parsed_lists), LAMBDA n :
    Bind(column_names(n), LAMBDA names :
        [i \in DOMAIN rows |-> row_dict(rows[i], parsed_lists[i], names, n)])))

-----------------------------------------------------------------------------
(* add_numeric_columns (cleantables.py, cleantablenow.py)                  *)

\* One value column of one row after the loop body: the cell holds the
\* string parse_numeric_value returns and the column col_Num its number.
numeric_cell(cell) ==
    Bind(parse_numeric_value(cell.value), LAMBDA r :
        [column |-> cell.column,
         value |-> r.display,
         num_column |-> cell.column \o <<"_","N","u","m">>,
         num_value |-> r.numeric])

\* The row after the loop over the value columns cols of its values.
numeric_row(row, cols) ==
    Bind([k \in DOMAIN row.values |->
             IF k \in cols THEN numeric_cell(row.values[k])
             ELSE [column |-> row.values[k].column, value |-> row.values[k].value]],
         LAMBDA cells :
        [Line_Item |-> row.Line_Item,
         _metadata |-> row._metadata,
         values |-> [k \in DOMAIN cells |-> [column |-> cells[k].column,
                                             value |-> cells[k].value]],
         values_Num |-> Bind(Sorted(cols \cap DOMAIN cells), LAMBDA idx :
                           [j \in DOMAIN idx |-> [column |-> cells[idx[j]].num_column,
                                                  value |-> cells[idx[j]].num_value]])])

\* The loop starting after the first value column.
add_numeric_columns_after_first(rows) ==
    IF Len(rows) = 0 THEN rows
    ELSE [i \in DOMAIN rows |-> numeric_row(rows[i], (DOMAIN rows[i].values) \ {1})]

\* add_numeric_columns(structured_df): every column but 'Line Item' and
\* '_metadata' is a value column.
add_numeric_columns(rows) ==
    IF Len(rows) = 0 THEN rows
    ELSE [i \in DOMAIN rows |-> numeric_row(rows[i], DOMAIN rows[i].values)]

-----------------------------------------------------------------------------
(* RawFilter: filter_raw_extraction and simple_filter                      *)

\* df[mask]: the rows whose mask entry is True, in their order in the frame.
boolean_index(rows, mask) ==
    Bind(Sorted({i \in DOMAIN rows : mask[i]}), LAMBDA kept :
        [k \in 1..Len(kept) |-> rows[kept[k]]])

\* A first mask that lets every row through.
filter1_mask_all_rows(rows) == [i \in DOMAIN rows |-> TRUE]

\* df[regular_col] == df[consecutive_col]
filter1_mask(rows) ==
    [i \in DOMAIN rows |-> rows[i].Regular_Count = rows[i].Consecutive_Count]

\* A second mask that lets a regular count of 2 through.
filter2_mask_at_least_2(rows) ==
    [i \in DOMAIN rows |-> rows[i].Regular_Count >= 2]

\* df_filter1[regular_col] > 2
filter2_mask(rows) ==
    [i \in DOMAIN rows |-> rows[i].Regular_Count > 2]

\* The two filters of filter_raw_extraction, one after the other. The count
\* columns of the raw sheet hold integers, which pd.to_numeric leaves as
\* they are; a frame without matching rows gives the empty frame.
filter_raw_extraction(rows) ==
    Bind(boolean_index(rows, filter1_mask(rows)), LAMBDA df_filter1 :
        boolean_index(df_filter1, filter2_mask(df_filter1)))

\* mask = (df[reg_col] == df[cons_col]) & (df[reg_col] > 2)
simple_filter_mask(rows) ==
    [i \in DOMAIN rows |->
        /\ rows[i].Regular_Count = rows[i].Consecutive_Count
        /\ rows[i].Regular_Count > 2]

\* df_filtered = df[mask].copy()
simple_filter(rows) == boolean_index(rows, simple_filter_mask(rows))

-----------------------------------------------------------------------------
(* Inputs                                                                  *)

\* Longest line of the scanner specification, in words.
MaxWords == 3

\* The document specification reads at most this many lines ...
MaxLines == 3

\* ... on at most this many pages.
MaxPages == 2

\* The grouper specification groups at most this many rows ...
MaxRows == 4

\* ... whose counts are at most this.
MaxCount == 2

Words ==
    { <<"T","i","e","r"," ","1">>,
      <<"Q","1","5">>,
      <<"5">>,
      <<"0">>,
      <<"1">>,
      <<"(","1",".","5",")","%">>,
      <<"R","a","t","e",":">>,
      <<"a","n","d">>,
      <<"5","k","g">>,
      <<"5","k","b">> }

RECURSIVE join(_)
\* ' '.join(ws)
join(ws) ==
    IF Len(ws) = 0 THEN << >>
    ELSE IF Len(ws) = 1 THEN ws[1]
    ELSE ws[1] \o << " " >> \o join(Tail(ws))

WordLines == UNION {{join(ws) : ws \in [1..n -> Words]} : n \in 1..MaxWords}

\* The two lines the extraction script prints as its verified examples.
ExampleTier ==
    <<"C","o","m","m","o","n"," ","E","q","u","i","t","y"," ","T","i","e","r"," ","1"," ",
      "3","6",",","5","9","4"," ","3","5",",","4","2","5"," ","3">>

ExampleIncome ==
    <<"O","p","e","r","a","t","i","n","g"," ","i","n","c","o","m","e"," ",
      "5",",","1","4","7"," ","4",",","9","0","4"," ","5">>

\* A line kept for its financial term alone.
ExampleTerm == <<"E","P","S"," ","5">>

\* A colon line whose label holds a character that label cleaning removes.
ExampleRatio == <<"P","/","E",":"," ","5"," ","0">>

\* A line whose regular numbers form two runs, the longer one last.
ExampleRuns == <<"5"," ","7"," ","a","n","d"," ","8"," ","9"," ","6">>

Lines == WordLines \cup {ExampleTier, ExampleIncome, ExampleTerm, ExampleRatio, ExampleRuns}

\* Raw lines of a page, as page.extract_text().split('\n') yields them.
DocLines ==
    { << >>,
      <<" ","\t">>,
      <<" "," ","B","a","l","a","n","c","e"," ","s","h","e","e","t">>,
      <<"R","e","p","o","r","t","e","d"," ","p","e","r","f","o","r","m","a","n","c","e"," ","5"," ","6">>,
      <<"%"," ","5"," ","7">>,
      <<"T","o","t","a","l"," "," ","a","s","s","e","t","s","\t","5"," ","6">>,
      <<"N","o","t","e">>,
      <<"%",":"," ","$">> }

Counts == 0..MaxCount

\* The count pairs a record can carry: the consecutive count is at most the
\* regular count and equals it when there is at most one regular number.
Rows ==
    {row \in [Regular_Count : Counts, Consecutive_Count : Counts] :
        /\ row.Consecutive_Count <= row.Regular_Count
        /\ row.Regular_Count <= 1 => row.Consecutive_Count = row.Regular_Count
        /\ row.Regular_Count >= 1 => row.Consecutive_Count >= 1}

Row(r, c) == [Regular_Count |-> r, Consecutive_Count |-> c]

\* A data frame of the rows ps: row i carries its own Label, i.
Frame(ps) ==
    [i \in DOMAIN ps |-> [Label |-> i,
                          Regular_Count |-> ps[i].Regular_Count,
                          Consecutive_Count |-> ps[i].Consecutive_Count]]

\* The scenario of the specification: counts (3,3),(3,3),(2,1),(2,1),(2,1).
ExampleRows == Frame(<< Row(3, 3), Row(3, 3), Row(2, 1), Row(2, 1), Row(2, 1) >>)

Dfs == {Frame(ps) : ps \in UNION {[1..n -> Rows] : n \in 0..MaxRows}} \cup {ExampleRows}

\* The strings handed to the value parsers: blank, opening, body, closing,
\* suffix, blank.
Pads == { << >>,
      <<" ">> }

Opens == { << >>,
      <<"(">>,
      <<"-">>,
      <<"$">>,
      <<"(","-">>,
      <<"(","$">> }

NumberBodies == { <<"5">>,
      <<"1",".","2">>,
      <<"3",".","4">>,
      <<"1","2","0">>,
      <<"2",".","1">>,
      <<"1",",","2","3","4",".","5","0">>,
      <<"0">> }

OtherBodies == { << >>,
      <<"-">>,
      <<"n","m">>,
      <<"n","/","a">>,
      <<"n","a">>,
      <<"n",".","a",".">>,
      <<"N","/","A">>,
      <<"n","a","n">>,
      <<"x">> }

Closes == { << >>,
      <<")">> }

Suffixes == { << >>,
      <<"%">>,
      <<"b","p","s">>,
      <<" ","b","p","s">>,
      <<"k">>,
      <<"m">>,
      <<"b">>,
      <<"M">> }

Values ==
    {pad \o open \o body \o close \o suffix \o pad :
        pad \in Pads, open \in Opens, body \in NumberBodies \cup OtherBodies,
        close \in Closes, suffix \in Suffixes}

\* Most rows of a table handed to the structurer.
MaxTableRows == 3

\* The regular numbers of the rows: the first n tokens of NumberPool, for
\* every n from none to all five.
NumberPool == << <<"5",",","1","4","7">>, <<"4",",","9","0","4">>, <<"5">>, <<"(","1",".","2",")">>, <<"3",".","4","%">> >>

NumberLists == {SubSeq(NumberPool, 1, n) : n \in 0..Len(NumberPool)}

\* The Label cells: a label, and the empty cell of a record without label.
TableLabels == { <<"n","e","t"," ","i","n","c","o","m","e",":">>, NaNCell }

\* The row of the grouped-tables sheet for a label and a list of numbers;
\* the raw line of a row without label holds at most two whole numbers.
TableRow(label, nums) ==
    [Label |-> label,
     Raw_Line |-> IF label = NaNCell THEN join_words(SubSeq(nums, 1, Min({2, Len(nums)})))
                  ELSE join_words(<< label >> \o nums),
     Regular_Numbers |-> repr_list(nums),
     Page |-> 1,
     Section |-> NaNCell]

TableRows == {TableRow(label, nums) : label \in TableLabels, nums \in NumberLists}

TableDfs == UNION {[1..n -> TableRows] : n \in 0..MaxTableRows}

\* The raw sheets handed to the filter have at most this many rows ...
MaxFilterRows == 3

\* ... whose counts are at most this.
MaxFilterCount == 4

FilterCounts == 0..MaxFilterCount

\* The count pairs of a raw sheet: the consecutive count is at most the
\* regular count and equals it when there is at most one regular number.
FilterRows ==
    {row \in [Regular_Count : FilterCounts, Consecutive_Count : FilterCounts] :
        /\ row.Consecutive_Count <= row.Regular_Count
        /\ row.Regular_Count <= 1 => row.Consecutive_Count = row.Regular_Count
        /\ row.Regular_Count >= 1 => row.Consecutive_Count >= 1}

FilterDfs == {Frame(ps) : ps \in UNION {[1..n -> FilterRows] : n \in 0..MaxFilterRows}}

\* The count pairs of the rows of a raw sheet sent through the whole
\* pipeline: regular count, consecutive count.
PipelineCounts == { <<2, 2>>, <<3, 2>>, <<3, 3>>, <<4, 3>>, <<4, 4>>, <<5, 5>> }

\* The row of the raw sheet for a count pair: its Regular_Numbers holds
\* Regular_Count tokens.
PipelineRow(rc) ==
    [Label |-> <<"n","e","t"," ","i","n","c","o","m","e",":">>,
     Raw_Line |-> join_words(<< <<"n","e","t"," ","i","n","c","o","m","e",":">> >>
                             \o SubSeq(NumberPool, 1, rc[1])),
     Regular_Numbers |-> repr_list(SubSeq(NumberPool, 1, rc[1])),
     Regular_Count |-> rc[1],
     Consecutive_Count |-> rc[2],
     Page |-> 1,
     Section |-> NaNCell]

\* The raw sheets: row i is on page i, which tells the rows apart.
PipelineDfs ==
    { [i \in DOMAIN ps |-> [PipelineRow(ps[i]) EXCEPT !.Page = i]] :
        ps \in UNION {[1..n -> PipelineCounts] : n \in 0..MaxFilterRows} }

NoScan == [regular_numbers |-> << >>, excluded_numbers |-> << >>, all_numbers |-> << >>]

\* No workbook has been handled.
NoFile == [fault |-> "none", content |-> << >>]

\* No batch is running.
BatchIdle ==
    /\ script = "none"
    /\ listing = << >>
    /\ excel_files = << >>
    /\ file_index = 0
    /\ current_file = NoFile
    /\ results = << >>

\* Nothing has been parsed, structured or filtered.
NothingStructured ==
    /\ value = << >>
    /\ parsed = << >>
    /\ parsed_numeric = << >>
    /\ table_df = << >>
    /\ structured_df = << >>
    /\ df_filtered = << >>
    /\ numeric_df = << >>
    /\ table_num = 0

\* Nothing has been parsed, structured or filtered, and no batch is running.
StagesIdle == NothingStructured /\ BatchIdle

\* Nothing has been extracted or grouped.
ExtractIdle ==
    /\ text = << >>
    /\ scan = NoScan
    /\ matches = << >>
    /\ consecutive = 0
    /\ page_num = 0
    /\ current_section = None
    /\ doc = << >>
    /\ emitted_at = << >>
    /\ all_data = << >>
    /\ tables = << >>
    /\ regrouped = << >>

-----------------------------------------------------------------------------
(* Spec: extract_all_financial_data reading a document page by page        *)

Init ==
    /\ pc = "open"
    /\ text = << >>
    /\ scan = NoScan
    /\ matches = << >>
    /\ consecutive = 0
    /\ page_num = 0
    /\ current_section = None
    /\ doc = << >>
    /\ emitted_at = << >>
    /\ all_data = << >>
    /\ df = << >>
    /\ tables = << >>
    /\ regrouped = << >>
    /\ StagesIdle

\* The step to the next page that leaves current_section as it is.
NextPageKeepSection ==
    /\ page_num < MaxPages
    /\ page_num' = page_num + 1
    /\ pc' = "page"
    /\ UNCHANGED << stage_vars, text, scan, matches, consecutive, current_section, doc, emitted_at,
                    all_data, df, tables, regrouped >>

\* for page_num, page in enumerate(pdf.pages, 1): ... current_section = None
NextPage ==
    /\ page_num < MaxPages
    /\ page_num' = page_num + 1
    /\ current_section' = None
    /\ pc' = "page"
    /\ UNCHANGED << stage_vars, text, scan, matches, consecutive, doc, emitted_at, all_data,
                    df, tables, regrouped >>

\* What every iteration of the line loop does first: the line is read
\* and cleaned.
Read(raw, line_clean) ==
    /\ page_num >= 1
    /\ Len(doc) < MaxLines
    /\ text' = raw
    /\ doc' = Append(doc, [page |-> page_num, line |-> line_clean])
    /\ UNCHANGED << stage_vars, scan, matches, consecutive, page_num, df, tables, regrouped >>

\* if not line_clean: continue
SkipEmptyLine ==
    \E raw \in DocLines :
        \E line_clean \in {clean_text(raw)} :
            /\ Read(raw, line_clean)
            /\ Len(line_clean) = 0
            /\ pc' = "skipped"
            /\ UNCHANGED << current_section, emitted_at, all_data >>

\* a heading keyword: current_section = line_clean; continue
SectionHeading ==
    \E raw \in DocLines :
        \E line_clean \in {clean_text(raw)} :
            /\ Read(raw, line_clean)
            /\ Len(line_clean) > 0
            /\ is_section_heading(line_clean)
            /\ current_section' = line_clean
            /\ pc' = "section"
            /\ UNCHANGED << emitted_at, all_data >>

\* The step that appends a record without looking for a heading keyword.
EmitRecordForHeading ==
    \E raw \in DocLines :
        \E line_clean \in {clean_text(raw)} :
            /\ Read(raw, line_clean)
            /\ Len(line_clean) > 0
            /\ all_data' = all_data \o line_records(line_clean, page_num, current_section)
            /\ Len(all_data') > Len(all_data)
            /\ emitted_at' = Append(emitted_at, Len(doc) + 1)
            /\ pc' = "emitted"
            /\ UNCHANGED current_section

\* a financial line with a label: all_data.append({...})
EmitRecord ==
    \E raw \in DocLines :
        \E line_clean \in {clean_text(raw)} :
            /\ Read(raw, line_clean)
            /\ Len(line_clean) > 0
            /\ ~is_section_heading(line_clean)
            /\ all_data' = all_data \o line_records(line_clean, page_num, current_section)
            /\ Len(all_data') > Len(all_data)
            /\ emitted_at' = Append(emitted_at, Len(doc) + 1)
            /\ pc' = "emitted"
            /\ UNCHANGED current_section

\* any other line leaves no record
RejectLine ==
    \E raw \in DocLines :
        \E line_clean \in {clean_text(raw)} :
            /\ Read(raw, line_clean)
            /\ Len(line_clean) > 0
            /\ ~is_section_heading(line_clean)
            /\ Len(line_records(line_clean, page_num, current_section)) = 0
            /\ pc' = "rejected"
            /\ UNCHANGED << current_section, emitted_at, all_data >>

Next == NextPage \/ SkipEmptyLine \/ SectionHeading \/ EmitRecord \/ RejectLine

Spec == Init /\ [][Next]_vars

-----------------------------------------------------------------------------
(* SpecLine: the scanner, the counter and the line loop applied to one     *)
(* cleaned line                                                            *)

InitLine ==
    /\ pc = "line"
    /\ \E raw \in Lines : text = clean_text(raw)
    /\ scan = NoScan
    /\ matches = << >>
    /\ consecutive = 0
    /\ page_num = 1
    /\ current_section = None
    /\ doc = << >>
    /\ emitted_at = << >>
    /\ all_data = << >>
    /\ df = << >>
    /\ tables = << >>
    /\ regrouped = << >>
    /\ StagesIdle

ScanLine ==
    /\ pc = "line"
    /\ scan' = extract_numbers_smart(text)
    /\ matches' = scan_matches(text)
    /\ pc' = "scanned"
    /\ UNCHANGED << stage_vars, text, consecutive, page_num, current_section, doc, emitted_at,
                    all_data, df, tables, regrouped >>

CountLine ==
    /\ pc = "scanned"
    /\ consecutive' = count_consecutive_regular_numbers(text)
    /\ pc' = "counted"
    /\ UNCHANGED << stage_vars, text, scan, matches, page_num, current_section, doc, emitted_at,
                    all_data, df, tables, regrouped >>

ExtractLine ==
    /\ pc = "counted"
    /\ all_data' = line_records(text, page_num, current_section)
    /\ pc' = "extracted"
    /\ UNCHANGED << stage_vars, text, scan, matches, consecutive, page_num, current_section, doc,
                    emitted_at, df, tables, regrouped >>

NextLine == ScanLine \/ CountLine \/ ExtractLine

SpecLine == InitLine /\ [][NextLine]_vars

-----------------------------------------------------------------------------
(* SpecGroup: group_into_tables_fast applied to one sheet of rows          *)

InitGroup ==
    /\ pc = "rows"
    /\ df \in Dfs
    /\ text = << >>
    /\ scan = NoScan
    /\ matches = << >>
    /\ consecutive = 0
    /\ page_num = 0
    /\ current_section = None
    /\ doc = << >>
    /\ emitted_at = << >>
    /\ all_data = << >>
    /\ tables = << >>
    /\ regrouped = << >>
    /\ StagesIdle

Group ==
    /\ pc = "rows"
    /\ tables' = group_into_tables_fast(df)
    /\ pc' = "grouped"
    /\ UNCHANGED << stage_vars, text, scan, matches, consecutive, page_num, current_section, doc,
                    emitted_at, all_data, df, regrouped >>

\* The tables are written out, read back as one sheet and grouped again.
Regroup ==
    /\ pc = "grouped"
    /\ \E flat \in {Flatten(tables)} : regrouped' = group_into_tables_fast(flat)
    /\ pc' = "regrouped"
    /\ UNCHANGED << stage_vars, text, scan, matches, consecutive, page_num, current_section, doc,
                    emitted_at, all_data, df, tables >>

NextGroup == Group \/ Regroup

SpecGroup == InitGroup /\ [][NextGroup]_vars

-----------------------------------------------------------------------------
(* SpecParse: one string handed to parse_value and to parse_numeric_value  *)

InitParse ==
    /\ pc = "value"
    /\ value \in Values
    /\ parsed = << >>
    /\ parsed_numeric = << >>
    /\ table_df = << >>
    /\ structured_df = << >>
    /\ df_filtered = << >>
    /\ numeric_df = << >>
    /\ table_num = 0
    /\ BatchIdle
    /\ df = << >>
    /\ ExtractIdle

ParseValue ==
    /\ pc = "value"
    /\ parsed' = parse_value(value)
    /\ pc' = "parsed"
    /\ UNCHANGED << extract_vars, df, value, parsed_numeric, table_df, structured_df,
                    df_filtered, numeric_df, table_num, batch_vars >>

ParseNumericValue ==
    /\ pc = "parsed"
    /\ parsed_numeric' = parse_numeric_value(value)
    /\ pc' = "parsed_numeric"
    /\ UNCHANGED << extract_vars, df, value, parsed, table_df, structured_df,
                    df_filtered, numeric_df, table_num, batch_vars >>

NextParse == ParseValue \/ ParseNumericValue

SpecParse == InitParse /\ [][NextParse]_vars

-----------------------------------------------------------------------------
(* SpecStructure: one table handed to create_structured_table_from_raw     *)

InitStructure ==
    /\ pc = "table"
    /\ table_df \in TableDfs
    /\ structured_df = << >>
    /\ value = << >>
    /\ parsed = << >>
    /\ parsed_numeric = << >>
    /\ df_filtered = << >>
    /\ numeric_df = << >>
    /\ table_num = 0
    /\ BatchIdle
    /\ df = << >>
    /\ ExtractIdle

Structure ==
    /\ pc = "table"
    /\ structured_df' = create_structured_table_from_raw(table_df)
    /\ pc' = "structured"
    /\ UNCHANGED << extract_vars, df, value, parsed, parsed_numeric, table_df, df_filtered,
                    numeric_df, table_num, batch_vars >>

\* process_table: structured_df = add_numeric_columns(structured_df)
AddNumericColumns ==
    /\ pc = "structured"
    /\ numeric_df' = add_numeric_columns(structured_df)
    /\ pc' = "numeric"
    /\ UNCHANGED << extract_vars, df, value, parsed, parsed_numeric, table_df, structured_df,
                    df_filtered, table_num, batch_vars >>

NextStructure == Structure \/ AddNumericColumns

SpecStructure == InitStructure /\ [][NextStructure]_vars

-----------------------------------------------------------------------------
(* SpecFilter: one raw sheet handed to the filter recipe, by either of its *)
(* two entry points                                                        *)

InitFilter ==
    /\ pc = "raw"
    /\ df \in FilterDfs
    /\ StagesIdle
    /\ ExtractIdle

\* filter_raw_extraction: df_filtered is what is saved and returned.
FilterRawExtraction ==
    /\ pc = "raw"
    /\ df_filtered' = filter_raw_extraction(df)
    /\ pc' = "filtered"
    /\ UNCHANGED << extract_vars, df, value, parsed, parsed_numeric, table_df, structured_df,
                    numeric_df, table_num, batch_vars >>

\* simple_filter, the fallback of the recipe.
SimpleFilter ==
    /\ pc = "raw"
    /\ df_filtered' = simple_filter(df)
    /\ pc' = "simple_filtered"
    /\ UNCHANGED << extract_vars, df, value, parsed, parsed_numeric, table_df, structured_df,
                    numeric_df, table_num, batch_vars >>

NextFilter == FilterRawExtraction \/ SimpleFilter

SpecFilter == InitFilter /\ [][NextFilter]_vars

-----------------------------------------------------------------------------
(* SpecStages: the three stages that guard against an empty input, each on *)
(* its own input: the line loop, the grouper and the structurer            *)

\* The grouper and the structurer start on the empty sheet or on a sheet of
\* one row.
InitStages ==
    \/ Init
    \/ InitGroup /\ Len(df) <= 1
    \/ InitStructure /\ Len(table_df) <= 1

\* The line loop runs on the document only.
InDocument == pc \in {"open", "page", "skipped", "section", "emitted", "rejected"}

\* A line is read on a page only, so the guard on the first page keeps the
\* whole line loop in the document.
NextStages ==
    \/ InDocument /\ NextPage
    \/ SkipEmptyLine
    \/ SectionHeading
    \/ EmitRecord
    \/ RejectLine
    \/ NextGroup
    \/ NextStructure

SpecStages == InitStages /\ [][NextStages]_vars

-----------------------------------------------------------------------------
(* SpecPipeline: a raw sheet sent through the filter, the grouper and the  *)
(* structurer, one script after the other                                  *)

InitPipeline ==
    /\ pc = "raw"
    /\ df \in PipelineDfs
    /\ StagesIdle
    /\ ExtractIdle

\* rawprocessor.py: the filtered sheet is saved.
PipelineFilter ==
    /\ pc = "raw"
    /\ df_filtered' = filter_raw_extraction(df)
    /\ pc' = "filtered"
    /\ UNCHANGED << extract_vars, df, value, parsed, parsed_numeric, table_df, structured_df,
                    numeric_df, table_num, batch_vars >>

\* tablefromraw.py: the filtered sheet is grouped into tables.
PipelineGroup ==
    /\ pc = "filtered"
    /\ tables' = group_into_tables_fast(df_filtered)
    /\ pc' = "grouped"
    /\ UNCHANGED << stage_vars, text, scan, matches, consecutive, page_num, current_section, doc,
                    emitted_at, all_data, df, regrouped >>

\* cleantables.py: the table sheets are structured one after the other.
PipelineStructure ==
    /\ pc \in {"grouped", "table_structured"}
    /\ table_num < Len(tables)
    /\ table_num' = table_num + 1
    /\ table_df' = tables[table_num + 1]
    /\ structured_df' = create_structured_table_from_raw(tables[table_num + 1])
    /\ pc' = "table_structured"
    /\ UNCHANGED << extract_vars, df, value, parsed, parsed_numeric, df_filtered, numeric_df,
                    batch_vars >>

NextPipeline == PipelineFilter \/ PipelineGroup \/ PipelineStructure

SpecPipeline == InitPipeline /\ [][NextPipeline]_vars

-----------------------------------------------------------------------------
(* SpecBatch: batch_process_all_files of the three folder scripts, each    *)
(* on the listing of its input folder                                      *)

\* The most Excel files a folder holds.
MaxFiles == 2

\* A path is named by its rank in the order sorted() puts the folder's
\* names in; path 0 is the one that ends in neither .xlsx nor .xls.
Paths == 0 .. MaxFiles

\* folder.list_paths_in_partition(): the paths of the folder, each once, in
\* any order.
Listings ==
    UNION { {s \in [1..n -> Paths] : \A i, j \in 1..n : s[i] = s[j] => i = j} :
              n \in 0..(MaxFiles + 1) }

\* list_excel_files_in_folder(): the Excel paths of the listing, sorted.
list_excel_files_in_folder(all_files) ==
    Sorted(Range(SelectSeq(all_files, LAMBDA f : f > 0)))

\* rawprocessor.py, tablefromraw.py and cleantablenow.py.
Scripts == {"filter", "group", "structure"}

\* What raises while a file is handled: nothing, the download of the
\* workbook, the load of its sheet, the processing of its rows, or the save
\* of the output.
Faults == {"none", "read", "sheet", "process", "save"}

\* The sheet of a workbook: no row, or one row of the raw sheet.
FileContents == { << >> } \cup { << PipelineRow(rc) >> : rc \in PipelineCounts }

\* A workbook and what fails on it.
Files == [fault : Faults, content : FileContents]

\* rawprocessor.py filter_raw_extraction(input_filename): the rows kept and
\* their number; the except clause turns every exception into the empty
\* result, and so does a sheet none of whose rows pass.
filter_raw_extraction_caught(file) ==
    IF file.fault \in {"read", "sheet"} THEN << << >>, 0 >>
    ELSE Bind(filter_raw_extraction(file.content), LAMBDA kept :
             IF file.fault = "process" THEN << << >>, 0 >>
             ELSE IF Len(kept) = 0 THEN << << >>, 0 >>
             ELSE IF file.fault = "save" THEN << << >>, 0 >>
             ELSE << kept, Len(kept) >>)

\* process_single_file where the exception of the file reaches its caller.
process_single_file_reraising(input_filename, file) ==
    [input_file |-> input_filename,
     status |-> IF file.fault # "none" THEN "error"
                ELSE IF filter_raw_extraction_caught(file)[2] > 0 THEN "success"
                ELSE "no_match"]

\* rawprocessor.py process_single_file(input_filename): the result of the
\* file. No exception leaves filter_raw_extraction, so the except clause
\* that sets the status 'error' is never entered.
process_single_file(input_filename, file) ==
    [input_file |-> input_filename,
     status |-> IF filter_raw_extraction_caught(file)[2] > 0 THEN "success"
                ELSE "no_match"]

\* tablefromraw.py batch_process_all_files, the body of the loop: the
\* results the file adds.
group_file(filename, file) ==
    << [input_file |-> filename,
        status |-> IF file.fault \in {"read", "sheet"} THEN "error"
                   ELSE IF Len(file.content) = 0 THEN "skipped"
                   ELSE IF file.fault = "process" THEN "error"
                   ELSE IF Len(group_into_tables_fast(file.content)) = 0 THEN "skipped"
                   ELSE IF file.fault = "save" THEN "error"
                   ELSE "success"] >>

\* cleantablenow.py batch_process_all_files, the body of the loop: the
\* results the file adds. The workbook holds one table sheet; a sheet that
\* fails to load is left out of all_tables, and a workbook with no loaded
\* sheet is passed over by the continue that appends nothing.
structure_file(filename, file) ==
    IF file.fault = "read" THEN << [input_file |-> filename, status |-> "error"] >>
    ELSE IF file.fault = "sheet" THEN << >>
    ELSE IF file.fault = "process" THEN << [input_file |-> filename, status |-> "error"] >>
    ELSE IF Len(create_structured_table_from_raw(file.content)) = 0
         THEN << [input_file |-> filename, status |-> "no_tables"] >>
    ELSE IF file.fault = "save" THEN << [input_file |-> filename, status |-> "error"] >>
    ELSE << [input_file |-> filename, status |-> "success"] >>

InitBatch ==
    /\ pc = "listed"
    /\ script \in Scripts
    /\ listing \in Listings
    /\ excel_files = list_excel_files_in_folder(listing)
    /\ file_index = 0
    /\ current_file = NoFile
    /\ results = << >>
    /\ df = << >>
    /\ NothingStructured
    /\ ExtractIdle

\* One turn of the loop over excel_files: the next file is handled and its
\* results are appended.
BatchFile ==
    /\ pc \in {"listed", "recorded"}
    /\ file_index < Len(excel_files)
    /\ \E file \in Files :
        /\ current_file' = file
        /\ results' = results \o
               (CASE script = "filter" ->
                         << process_single_file(excel_files[file_index + 1], file) >>
                  [] script = "group" -> group_file(excel_files[file_index + 1], file)
                  [] script = "structure" -> structure_file(excel_files[file_index + 1], file))
    /\ file_index' = file_index + 1
    /\ pc' = "recorded"
    /\ UNCHANGED << extract_vars, df, value, parsed, parsed_numeric, table_df, structured_df,
                    df_filtered, numeric_df, table_num, script, listing, excel_files >>

\* The loop is over (or the folder held no Excel file): the list is returned.
BatchReturn ==
    /\ pc \in {"listed", "recorded"}
    /\ file_index = Len(excel_files)
    /\ pc' = "returned"
    /\ UNCHANGED << extract_vars, df, stage_vars >>

\* rawprocessor.py: the summary of a batch with results is written outside
\* any try; when the write raises, the exception leaves the function and no
\* list is returned.
BatchSummaryRaises ==
    /\ pc \in {"listed", "recorded"}
    /\ file_index = Len(excel_files)
    /\ script = "filter"
    /\ results # << >>
    /\ pc' = "raised"
    /\ UNCHANGED << extract_vars, df, stage_vars >>

NextBatch == BatchFile \/ BatchReturn \/ BatchSummaryRaises

SpecBatch == InitBatch /\ [][NextBatch]_vars

-----------------------------------------------------------------------------
(* Properties of the scanner and the counter (SpecLine)                    *)

\* The texts of the matches of ms that satisfy P, in match order.
TextsWhere(ms, P(_)) ==
    Bind(SelectSeq(ms, P), LAMBDA sel : [i \in DOMAIN sel |-> sel[i].num_text])

\* The token's span lies inside an occurrence of an exclusion phrase whose
\* digit set holds the token's digits.
InsideExcludingPhrase(txt, m) ==
    \E text_lower \in {lower(txt)} :
        \E k \in DOMAIN EXCLUSION_PHRASES : \E p \in 0..Len(txt) :
            /\ OccursAt(text_lower, EXCLUSION_PHRASES[k].phrase, p)
            /\ p <= m.start
            /\ m.end <= p + Len(EXCLUSION_PHRASES[k].phrase)
            /\ SelectSeq(SubSeq(txt, m.start + 1, m.end), isdigit)
                   \in EXCLUSION_PHRASES[k].exclude_nums

\* The token touches a letter: the character after it is a letter, unless
\* that letter is a lone k, m or b (no letter follows it); or no letter
\* follows the token and the character before it is a letter.
TouchesLetter(txt, m) ==
    LET letterBefore == m.start > 0 /\ txt[m.start] \in Letters
        letterAfter  == m.end < Len(txt) /\ txt[m.end + 1] \in Letters
        loneUnit     == /\ letterAfter
                        /\ lower_char(txt[m.end + 1]) \in {"k", "m", "b"}
                        /\ ~(m.end + 1 < Len(txt) /\ txt[m.end + 2] \in Letters)
    IN  \/ letterAfter /\ ~loneUnit
        \/ ~letterAfter /\ letterBefore

RegularMatches == SelectSeq(matches, LAMBDA m : ~m.is_excluded)

\* All regular numbers of the line form one run: between each one and the
\* next there is whitespace and nothing else.
OneWhitespaceRun ==
    \E reg \in {RegularMatches} :
        \A i \in 1..(Len(reg) - 1) :
            /\ reg[i].end < reg[i + 1].start
            /\ \A q \in (reg[i].end + 1)..reg[i + 1].start : text[q] \in Whitespace

\* C2: when all regular numbers form one whitespace-separated run, the
\* consecutive count is the number of regular numbers, whatever the digit
\* strings are.
C2_FullRunCountsAll ==
    (pc = "counted" /\ OneWhitespaceRun) => consecutive = Len(scan.regular_numbers)

\* C4: 'Common Equity Tier 1 36,594 35,425 3' scans to regular
\* ['36,594','35,425','3'], excluded ['1'], and its consecutive count is 3.
C4_TierExample ==
    (pc = "counted" /\ text = ExampleTier) =>
        /\ scan.regular_numbers =
               << <<"3","6",",","5","9","4">>, <<"3","5",",","4","2","5">>, <<"3">> >>
        /\ scan.excluded_numbers = << <<"1">> >>
        /\ consecutive = 3

C4_Witness == pc = "counted" /\ text = ExampleTier /\ Len(scan.all_numbers) = 4

\* The members of s at the indexes in keep, in order.
Restrict(s, keep) == Bind(Sorted(keep), LAMBDA idx : [k \in DOMAIN idx |-> s[idx[k]]])

\* C5: regular and excluded together are no longer than all, and they are
\* the tokens at two disjoint sets of positions of all.
C5_RegularExcludedDisjoint ==
    pc = "scanned" =>
        /\ Len(scan.regular_numbers) + Len(scan.excluded_numbers) <= Len(scan.all_numbers)
        /\ \E R \in SUBSET (DOMAIN scan.all_numbers) :
               /\ Restrict(scan.all_numbers, R) = scan.regular_numbers
               /\ Restrict(scan.all_numbers, (DOMAIN scan.all_numbers) \ R)
                      = scan.excluded_numbers

\* A scan with both kinds of token, two of them with the same text.
C5_Witness ==
    /\ pc = "scanned"
    /\ Len(scan.regular_numbers) >= 1
    /\ Len(scan.excluded_numbers) >= 1
    /\ \E i \in DOMAIN scan.regular_numbers : \E j \in DOMAIN scan.excluded_numbers :
           scan.regular_numbers[i] = scan.excluded_numbers[j]

-----------------------------------------------------------------------------
(* Properties of the records of one line (SpecLine)                        *)

\* C3: every record has 0 <= consecutive count <= regular count, also a
\* colon-pattern record, whose numbers come from the text after the colon
\* while the count is taken on the whole line; and the counter returns
\* len(regular) when that is at most 1, and at least 1 when there is a
\* regular number.
C3_ConsecutiveWithinRegular ==
    /\ \A k \in DOMAIN all_data :
           /\ 0 <= all_data[k].regular_consecutive_numbers
           /\ all_data[k].regular_consecutive_numbers <= all_data[k].regular_number_count
    /\ pc \in {"counted", "extracted"} =>
           /\ consecutive <= Len(scan.regular_numbers)
           /\ Len(scan.regular_numbers) <= 1 => consecutive = Len(scan.regular_numbers)
           /\ Len(scan.regular_numbers) >= 1 => consecutive >= 1

\* A colon-pattern record whose regular numbers are not all consecutive.
C3_Witness ==
    /\ pc = "extracted"
    /\ \E k \in DOMAIN all_data :
           /\ all_data[k].extraction_method = "COLON_SEPARATED"
           /\ all_data[k].regular_number_count >= 2
           /\ all_data[k].regular_consecutive_numbers >= 1
           /\ all_data[k].regular_consecutive_numbers < all_data[k].regular_number_count

\* The label the line should get: the text before offset pos, stripped,
\* without trailing colons and dashes, then cleaned of disallowed characters.
LabelBefore(line, pos) ==
    Bind(strip(SubSeq(line, 1, pos)), LAMBDA l1 :
    Bind(strip_trailing_colons_dashes(l1), LAMBDA l2 :
    Bind(strip(l2), LAMBDA l3 : clean_label(l3))))

\* C10: the record of a line without the colon pattern is labelled with
\* the text before the position of its first regular token, also when the
\* token's digits occur earlier in the line; the whole line is the label
\* when there is no regular number.
C10_LabelBeforeFirstRegularToken ==
    (pc = "extracted" /\ ~LINE_ITEM_PATTERN_match(text).matched) =>
        \A k \in DOMAIN all_data :
            all_data[k].label =
                IF Len(RegularMatches) >= 1
                THEN LabelBefore(text, RegularMatches[1].start)
                ELSE clean_label(text)

-----------------------------------------------------------------------------
(* Properties of the table grouper (SpecGroup)                             *)

\* The (regular count, consecutive count) pair of a row.
Pair(row) == << row.Regular_Count, row.Consecutive_Count >>

\* The sizes of the tables of ts, in order.
Sizes(ts) == [t \in DOMAIN ts |-> Len(ts[t])]

RECURSIVE SumSeq(_)
SumSeq(ns) == IF Len(ns) = 0 THEN 0 ELSE Head(ns) + SumSeq(Tail(ns))

\* The Label of the first row of each table: where the tables start in df.
Starts(ts) == {ts[t][1].Label : t \in {u \in DOMAIN ts : Len(ts[u]) > 0}}

\* C6: the grouper starts a new table exactly at the first row and at every
\* row whose pair differs from the previous row's: the rows of a table
\* share one pair, adjacent tables have different pairs, and the pairs
\* (3,3),(3,3),(2,1),(2,1),(2,1) give two tables of sizes 2 and 3.
C6_NewTableExactlyOnPairChange ==
    pc \in {"grouped", "regrouped"} =>
        /\ Starts(tables) = {i \in DOMAIN df : i = 1 \/ Pair(df[i]) # Pair(df[i - 1])}
        /\ Len(tables) = Cardinality(Starts(tables))
        /\ \A t \in DOMAIN tables :
               \A i, j \in DOMAIN tables[t] : Pair(tables[t][i]) = Pair(tables[t][j])
        /\ \A t \in 1..(Len(tables) - 1) :
               Pair(tables[t][Len(tables[t])]) # Pair(tables[t + 1][1])
        /\ df = ExampleRows => Sizes(tables) = << 2, 3 >>

\* The scenario has been grouped.
C6_Witness ==
    /\ pc = "grouped"
    /\ df = ExampleRows
    /\ Len(tables) = 2

\* C7: the tables concatenated in order are the input rows: the sizes add
\* up to the number of rows, no row is lost, duplicated or moved, and a run
\* of one row is a table of size 1.
C7_TablesConcatenateToInput ==
    pc \in {"grouped", "regrouped"} =>
        /\ Flatten(tables) = df
        /\ SumSeq(Sizes(tables)) = Len(df)
        /\ \A t \in DOMAIN tables : Len(tables[t]) >= 1
        /\ \A i \in DOMAIN df :
               ((i = 1 \/ Pair(df[i]) # Pair(df[i - 1]))
                   /\ (i = Len(df) \/ Pair(df[i]) # Pair(df[i + 1])))
               => \E t \in DOMAIN tables : tables[t] = << df[i] >>

\* A run of a single row between two longer runs became a table of size 1.
C7_Witness ==
    /\ pc = "grouped"
    /\ Len(df) >= 3
    /\ \E t \in 2..(Len(tables) - 1) : Len(tables[t]) = 1
    /\ \E t \in DOMAIN tables : Len(tables[t]) >= 2

\* C8: grouping the concatenation of the tables gives the same tables.
C8_GroupingIdempotent ==
    pc = "regrouped" =>
        /\ regrouped = tables
        /\ Sizes(regrouped) = Sizes(group_into_tables_fast(df))

\* Tables of several rows have been grouped again.
C8_Witness ==
    /\ pc = "regrouped"
    /\ Len(regrouped) >= 3
    /\ \E t \in DOMAIN regrouped : Len(regrouped[t]) >= 2

-----------------------------------------------------------------------------
(* Properties of the sections of a document (Spec)                         *)

\* The lines of doc before line n that are section headings, restricted to
\* the pages in pages.
HeadingsBefore(n, pages) ==
    {j \in 1..(n - 1) :
        /\ doc[j].page \in pages
        /\ Len(doc[j].line) > 0
        /\ is_section_heading(doc[j].line)}

\* The most recent of them, None when there is none.
LastHeadingBefore(n, pages) ==
    Bind(HeadingsBefore(n, pages), LAMBDA hs :
        IF hs = {} THEN None ELSE doc[Max(hs)].line)

\* C9 as stated: the section of every record is the most recent section
\* heading before its line in the document, whatever page that heading
\* was on.
C9_SectionIsLastHeadingInDocument ==
    \A k \in DOMAIN all_data :
        all_data[k].section = LastHeadingBefore(emitted_at[k], 1..MaxPages)

\* C9: the section of every record is the most recent section heading
\* before its line on the same page, and None when that page has no
\* heading before the line.
C9_SectionIsLastHeadingOnPage ==
    \A k \in DOMAIN all_data :
        /\ all_data[k].page = doc[emitted_at[k]].page
        /\ all_data[k].section = LastHeadingBefore(emitted_at[k], {all_data[k].page})

\* A record on the second page, after a heading on the first page and none
\* on the second.
C9_Witness ==
    \E k \in DOMAIN all_data :
        /\ all_data[k].page = 2
        /\ HeadingsBefore(emitted_at[k], {1}) # {}
        /\ HeadingsBefore(emitted_at[k], {2}) = {}
        /\ all_data[k].section = None

-----------------------------------------------------------------------------
(* Properties of the value parsers (SpecParse)                             *)

\* s is a token of the scanner: ALL_NUMBER_PATTERN matches all of it.
ScannerToken(s) ==
    /\ Len(s) > 0
    /\ s = strip(s)
    /\ ALL_NUMBER_PATTERN_match(s, 0) = Len(s)

\* s is a scanner token whose number is wrapped in parentheses.
Parenthesized(s) ==
    /\ ScannerToken(s)
    /\ s[1] = "("
    /\ \E i \in DOMAIN s : s[i] = ")"

\* s without its parentheses.
Unwrapped(s) == SelectSeq(s, LAMBDA c : c \notin {"(", ")"})

\* -x for a float, x for None and nan.
Negated(x) == IF x.kind = "float" THEN normalize(~x.neg, x.mant, x.exp) ELSE x

\* C11: for every scanner token wrapped in parentheses, each parser returns
\* the negation of what it returns for the token without the parentheses.
C11_ParenthesizedIsNegated ==
    (pc = "parsed_numeric" /\ Parenthesized(value)) =>
        /\ parsed.numeric = Negated(parse_value(Unwrapped(value)).numeric)
        /\ parsed_numeric.numeric = Negated(parse_numeric_value(Unwrapped(value)).numeric)


\* The float of mant * 10^exp, negative when neg.
Float(neg, mant, exp) == [kind |-> "float", neg |-> neg, mant |-> mant, exp |-> exp]

\* The examples of unit conversion: value, numeric result.
ConversionExamples ==
    { << <<"(","1",",","2","3","4",".","5","0",")">>, Float(TRUE, 12345, 0 - 1) >>,
      << <<"3",".","4","%">>, Float(FALSE, 34, 0 - 3) >>,
      << <<"1","2","0","b","p","s">>, Float(FALSE, 12, 0 - 3) >>,
      << <<"2",".","1","m">>, Float(FALSE, 21, 5) >>,
      << <<"n","/","a">>, NoneValue >> }

\* The power of ten each unit suffix stands for.
UnitExp ==
    { << <<"%">>, 0 - 2 >>, << <<"b","p","s">>, 0 - 4 >>, << <<" ","b","p","s">>, 0 - 4 >>,
      << <<"k">>, 3 >>, << <<"m">>, 6 >>, << <<"M">>, 6 >>, << <<"b">>, 9 >> }

\* C12: both parsers return (-1234.5, '(1,234.50)'), (0.034, '3.4%'),
\* (0.012, '120bps'), (2100000.0, '2.1m') and (None, 'n/a'); a plain number
\* followed by %, bps, k, m or b is the number times 1/100, 1/10000, 1e3,
\* 1e6 or 1e9.
C12_UnitConversions ==
    pc = "parsed_numeric" =>
        /\ \A ex \in ConversionExamples :
               value = ex[1] =>
                   /\ parsed = [numeric |-> ex[2], display |-> ex[1]]
                   /\ parsed_numeric = [numeric |-> ex[2], display |-> ex[1]]
        /\ \A body \in NumberBodies : \A u \in UnitExp :
               value = body \o u[1] =>
                   /\ parsed.numeric = times_pow10(float(strip_dollar_comma(body)), u[2])
                   /\ parsed_numeric.numeric = parsed.numeric

\* '2.1m' has been parsed to 2100000.0 by both parsers.
C12_Witness ==
    /\ pc = "parsed_numeric"
    /\ value = <<"2",".","1","m">>
    /\ parsed.numeric = Float(FALSE, 21, 5)
    /\ parsed_numeric.numeric = Float(FALSE, 21, 5)


\* The no-value strings of the specification.
SpecSentinels == { <<"-">>,
      <<"n","m">>,
      <<"n","/","a">>,
      <<"n","a">>,
      <<"n",".","a",".">> }

\* v is empty, whitespace-only or a sentinel in any letter case.
NoValue(v) == Len(strip(v)) = 0 \/ lower(strip(v)) \in SpecSentinels

\* v holds no digit: nothing numeric can be read from it.
NoDigit(v) == \A i \in DOMAIN v : ~isdigit(v[i])

\* r is a pair (numeric, display) whose numeric part is None or a float.
IsPair(r) ==
    /\ DOMAIN r = {"numeric", "display"}
    /\ r.numeric.kind \in {"None", "float", "nan"}

-----------------------------------------------------------------------------
(* Properties of the table structurer (SpecStructure)                      *)

\* The number of parsed regular numbers of each row of the table.
ParsedCounts ==
    [i \in DOMAIN table_df |-> Len(parse_regular_numbers(table_df[i].Regular_Numbers))]

\* How many entries of counts are n.
Frequency(counts, n) == Cardinality({i \in DOMAIN counts : counts[i] = n})

\* n is the most frequent of counts, and the first seen of the most frequent.
IsMajorityCount(counts, n) ==
    \E i \in DOMAIN counts :
        /\ counts[i] = n
        /\ \A j \in DOMAIN counts : Frequency(counts, counts[j]) <= Frequency(counts, n)
        /\ \A j \in 1..(i - 1) : Frequency(counts, counts[j]) < Frequency(counts, n)

\* The number of value columns of the structured rows.
ColumnCounts == {Len(structured_df[i].values) : i \in DOMAIN structured_df}

\* C14: the column count is the most frequent number of parsed regular
\* numbers of the table's rows, the first seen in row order among equally
\* frequent counts, and the common count when all rows agree.
C14_ColumnCountIsMajority ==
    (pc = "structured" /\ Len(table_df) > 0) =>
        \E counts \in {ParsedCounts} :
            /\ \A n \in ColumnCounts : IsMajorityCount(counts, n)
            /\ Cardinality(ColumnCounts) = 1
            /\ (\A i \in DOMAIN counts : counts[i] = counts[1]) =>
                   ColumnCounts = {counts[1]}

\* Three rows with three different counts, the largest in the middle: the
\* first row's count became the column count.
C14_Witness ==
    /\ pc = "structured"
    /\ Len(table_df) = 3
    /\ \E counts \in {ParsedCounts} :
           /\ counts[2] > counts[1]
           /\ counts[1] > counts[3]
           /\ ColumnCounts = {counts[1]}


\* The Line Item expected for a Label cell of the tables.
ExpectedLineItem(label) == IF label = NaNCell THEN << >> ELSE <<"N","e","t"," ","I","n","c","o","m","e">>

\* The values of a structured row, without their column names.
RowValues(row) == [k \in DOMAIN row.values |-> row.values[k].value]

\* C15: the structurer emits one row per record, in record order, each
\* with exactly column_count values: the record's first column_count
\* numbers in order, followed by empty strings when it has fewer; a record
\* with another count or with an empty label is emitted like any other.
C15_OneRowPerRecordPaddedOrTruncated ==
    pc = "structured" =>
        /\ Len(structured_df) = Len(table_df)
        /\ \A i \in DOMAIN structured_df :
               \E nums \in {parse_regular_numbers(table_df[i].Regular_Numbers)} :
               \E vals \in {RowValues(structured_df[i])} :
                   /\ ColumnCounts = {Len(vals)}
                   /\ structured_df[i].Line_Item = ExpectedLineItem(table_df[i].Label)
                   /\ \A k \in DOMAIN vals :
                          vals[k] = IF k <= Len(nums) THEN nums[k] ELSE << >>

\* A table whose three rows were truncated, padded and left as they are,
\* one of them with an empty label.
C15_Witness ==
    /\ pc = "structured"
    /\ Len(structured_df) = 3
    /\ \E counts \in {ParsedCounts} :
           /\ \E i \in DOMAIN counts : {counts[i]} = ColumnCounts
           /\ \E i \in DOMAIN counts : \A n \in ColumnCounts : counts[i] > n
           /\ \E i \in DOMAIN counts : \A n \in ColumnCounts : counts[i] < n
    /\ \E i \in DOMAIN structured_df : structured_df[i].Line_Item = << >>


\* The column names of a structured row.
RowColumns(row) == [k \in DOMAIN row.values |-> row.values[k].column]

\* The naming convention, count by count.
ConventionalNames ==
    [n \in 0..5 |->
        CASE n = 0 -> << >>
          [] n = 1 -> << <<"V","a","l","u","e","1">> >>
          [] n = 2 -> << <<"C","u","r","r","e","n","t">>, <<"P","r","i","o","r">> >>
          [] n = 3 -> << <<"C","u","r","r","e","n","t">>, <<"P","r","i","o","r">>, <<"C","h","a","n","g","e">> >>
          [] n = 4 -> << <<"Q","1">>, <<"Q","2">>, <<"Q","3">>, <<"Q","4">> >>
          [] n = 5 -> << <<"V","a","l","u","e","1">>, <<"V","a","l","u","e","2">>, <<"V","a","l","u","e","3">>, <<"V","a","l","u","e","4">>, <<"V","a","l","u","e","5">> >>]

\* C16: the columns are named from the column count alone: Current, Prior
\* for 2, Current, Prior, Change for 3, Q1..Q4 for 4, Value1..ValueN for
\* any other N (none for 0).
C16_ColumnNamesFromCount ==
    pc = "structured" =>
        \A i \in DOMAIN structured_df :
            \E cols \in {RowColumns(structured_df[i])} :
                /\ Len(cols) \in DOMAIN ConventionalNames
                /\ cols = ConventionalNames[Len(cols)]

\* A table of five columns, named Value1..Value5, whose rows disagree on
\* their count.
C16_Witness ==
    /\ pc = "structured"
    /\ ColumnCounts = {5}
    /\ Len(structured_df) >= 2
    /\ \E i \in DOMAIN table_df : ParsedCounts[i] = 2
    /\ RowColumns(structured_df[1]) = ConventionalNames[5]

-----------------------------------------------------------------------------
(* Properties of the line classifier (SpecLine)                            *)

\* s has the form 'label: values': a first colon with at least one
\* character before it, none of them a digit, and at least one after it.
ColonLine(s) ==
    \E c \in DOMAIN s :
        /\ s[c] = ":"
        /\ c >= 2
        /\ c < Len(s)
        /\ \A i \in 1..(c - 1) : s[i] # ":" /\ ~isdigit(s[i])

\* The lower-cased s contains a configured financial term.
TermLine(s) ==
    \E k \in DOMAIN FINANCIAL_TERMS :
        \E p \in 0..Len(s) : OccursAt(lower(s), FINANCIAL_TERMS[k], p)

\* C17: a line is kept exactly when it has the colon form, or contains a
\* financial term, or holds at least two regular numbers; a line that is
\* not kept leaves no record.
C17_KeptIffColonOrTermOrTwoNumbers ==
    pc \in {"scanned", "counted", "extracted"} =>
        /\ is_financial_line(text) <=>
               (ColonLine(text) \/ TermLine(text) \/ Len(scan.regular_numbers) >= 2)
        /\ (pc = "extracted" /\ Len(all_data) > 0) => is_financial_line(text)

\* A line kept for its two regular numbers alone gave a record.
C17_Witness ==
    /\ pc = "extracted"
    /\ ~ColonLine(text)
    /\ ~TermLine(text)
    /\ Len(scan.regular_numbers) >= 2
    /\ Len(all_data) = 1


\* The 1-based index of the first colon of a colon line.
FirstColon(s) == CHOOSE c \in DOMAIN s : s[c] = ":" /\ \A i \in 1..(c - 1) : s[i] # ":"

\* The trimmed text before and after the first colon.
BeforeColon(s) == strip(SubSeq(s, 1, FirstColon(s) - 1))
AfterColon(s) == strip(SubSeq(s, FirstColon(s) + 1, Len(s)))

\* The record's three number lists are those of scanning t.
ListsFromScanOf(r, t) ==
    \E nums \in {extract_numbers_smart(t)} :
        /\ r.regular_numbers = nums.regular_numbers
        /\ r.excluded_numbers = nums.excluded_numbers
        /\ r.all_numbers = nums.all_numbers

\* C18 as stated: the record of a colon line is labelled with the trimmed
\* text before the first colon, and its number lists come from scanning
\* the text after the colon.
C18_LabelIsTextBeforeColon ==
    (pc = "extracted" /\ ColonLine(text)) =>
        \A k \in DOMAIN all_data :
            /\ all_data[k].label = BeforeColon(text)
            /\ ListsFromScanOf(all_data[k], AfterColon(text))

\* C18: the record of a colon line is labelled with the trimmed text before
\* the first colon after the characters other than letters, digits,
\* whitespace, hyphen, parentheses and square brackets are removed and the
\* result is trimmed again; the line gives one record exactly when that
\* label is not empty, and the record's regular, excluded and all number
\* lists come from scanning the text after the colon only.
C18_LabelIsCleanedTextBeforeColon ==
    (pc = "extracted" /\ ColonLine(text)) =>
        /\ Len(all_data) = (IF Len(clean_label(BeforeColon(text))) > 0 THEN 1 ELSE 0)
        /\ \A k \in DOMAIN all_data :
               /\ all_data[k].label = clean_label(BeforeColon(text))
               /\ all_data[k].extraction_method = "COLON_SEPARATED"
               /\ ListsFromScanOf(all_data[k], AfterColon(text))
               /\ all_data[k].regular_number_count = Len(all_data[k].regular_numbers)

\* A colon line gave a record whose label lost a character to the cleaning
\* and whose numbers were scanned after the colon.
C18_Witness ==
    /\ pc = "extracted"
    /\ ColonLine(text)
    /\ Len(all_data) = 1
    /\ all_data[1].label # BeforeColon(text)
    /\ Len(all_data[1].regular_numbers) >= 2


-----------------------------------------------------------------------------
(* Lines without a label and without regular numbers (Spec)                *)

\* The part of a line its label is taken from has no character that label
\* cleaning keeps, whitespace aside: the text before the first colon of a
\* colon line, the whole line otherwise.
NoLabel(line) ==
    \E part \in {IF ColonLine(line) THEN BeforeColon(line) ELSE line} :
        \A i \in DOMAIN part : ~label_char(part[i]) \/ isspace(part[i])

NoLabelNoNumbers(line) ==
    /\ NoLabel(line)
    /\ Len(extract_numbers_smart(line).regular_numbers) = 0

\* C20: a line read from the document that has no label and no regular
\* number leaves no record: it is none of the lines a record was appended
\* for, and every record appended carries a label.
C20_NoLabelNoNumbersRejected ==
    /\ Len(all_data) = Len(emitted_at)
    /\ \A i \in DOMAIN doc :
           NoLabelNoNumbers(doc[i].line) => \A k \in DOMAIN emitted_at : emitted_at[k] # i
    /\ \A k \in DOMAIN all_data :
           /\ Len(all_data[k].label) > 0
           /\ ~NoLabelNoNumbers(all_data[k].raw_line)

\* After a record, a line that passes the keep test but has neither a label
\* nor a regular number was read and rejected, and the loop went on.
C20_Witness ==
    /\ pc = "rejected"
    /\ Len(doc) >= 2
    /\ Len(all_data) = 1
    /\ Len(doc[Len(doc)].line) > 0
    /\ is_financial_line(doc[Len(doc)].line)
    /\ NoLabelNoNumbers(doc[Len(doc)].line)


-----------------------------------------------------------------------------
(* Properties of the filter (SpecFilter)                                   *)

\* The indexes of the rows of the sheet the filter has to keep.
Consistent ==
    {i \in DOMAIN df : /\ df[i].Regular_Count = df[i].Consecutive_Count
                       /\ df[i].Regular_Count > 2}

\* C19: the filtered sheet holds exactly the rows whose regular count
\* equals their consecutive count and is greater than 2, each once, as it
\* was in the sheet, in the order of the sheet; the sheet itself is left
\* as it was.
C19_FilterKeepsConsistentRowsInOrder ==
    pc \in {"filtered", "simple_filtered"} =>
        /\ Len(df_filtered) = Cardinality(Consistent)
        /\ {df_filtered[k].Label : k \in DOMAIN df_filtered} = Consistent
        /\ \A k \in DOMAIN df_filtered : df_filtered[k] = df[df_filtered[k].Label]
        /\ \A j, k \in DOMAIN df_filtered :
               j < k => df_filtered[j].Label < df_filtered[k].Label
        /\ \A i \in DOMAIN df : df[i].Label = i

\* The first and the third row were kept, in that order; the row between
\* them, with equal counts of 2, was removed.
C19_Witness ==
    /\ pc = "filtered"
    /\ Len(df) = 3
    /\ df[2].Regular_Count = 2
    /\ df[2].Consecutive_Count = 2
    /\ Len(df_filtered) = 2
    /\ df_filtered[1].Label = 1
    /\ df_filtered[2].Label = 3
    /\ df_filtered[1].Regular_Count # df_filtered[2].Regular_Count


-----------------------------------------------------------------------------
(* Empty inputs (SpecStages)                                               *)

\* Every character of s is whitespace; the empty text included.
Blank(s) == \A i \in DOMAIN s : isspace(s[i])

\* The line loop has just handled a line.
LineHandled == pc \in {"skipped", "section", "emitted", "rejected"}

\* C21: an empty or whitespace-only line is skipped and leaves no record;
\* the grouper gives no table for a frame without rows; the structurer
\* gives an empty result for a table without rows.
C21_EmptyInputEmptyResult ==
    /\ (LineHandled /\ Blank(text)) =>
           /\ pc = "skipped"
           /\ Len(doc[Len(doc)].line) = 0
           /\ \A k \in DOMAIN emitted_at : emitted_at[k] # Len(doc)
           /\ Len(all_data) = Len(emitted_at)
    /\ (pc \in {"grouped", "regrouped"} /\ Len(df) = 0) => Len(tables) = 0
    /\ (pc = "regrouped" /\ Len(tables) = 0) => Len(regrouped) = 0
    /\ (pc = "structured" /\ Len(table_df) = 0) => Len(structured_df) = 0

\* A whitespace-only line was skipped after a record had been appended.
C21_Witness ==
    /\ pc = "skipped"
    /\ Len(text) > 0
    /\ Blank(text)
    /\ Len(all_data) = 1

\* The grouper was handed a frame without rows.
C21_WitnessGrouper == pc = "grouped" /\ Len(df) = 0 /\ Len(tables) = 0

\* The structurer was handed a table without rows.
C21_WitnessStructurer == pc = "structured" /\ Len(table_df) = 0 /\ Len(structured_df) = 0


-----------------------------------------------------------------------------
(* Order of the scanner's lists (SpecLine)                                 *)

\* The excluded tokens of the line, with their spans, in order.
ExcludedMatches == SelectSeq(matches, LAMBDA m : m.is_excluded)

\* The texts of a sequence of tokens.
Texts(ms) == [i \in DOMAIN ms |-> ms[i].num_text]

\* C22: the tokens lie one after the other in the text and cover every
\* digit of it; all holds their texts in that order, and regular and
\* excluded hold the texts of the regular and of the excluded tokens, each
\* in that same order.
C22_ListsInTextOrder ==
    pc \in {"scanned", "counted"} =>
        /\ \A i \in DOMAIN matches :
               /\ 0 <= matches[i].start
               /\ matches[i].start < matches[i].end
               /\ matches[i].end <= Len(text)
               /\ i > 1 => matches[i - 1].end <= matches[i].start
               /\ matches[i].num_text = strip(SubSeq(text, matches[i].start + 1, matches[i].end))
        /\ \A q \in DOMAIN text :
               isdigit(text[q]) =>
                   \E i \in DOMAIN matches : matches[i].start < q /\ q <= matches[i].end
        /\ scan.all_numbers = Texts(matches)
        /\ scan.regular_numbers = Texts(RegularMatches)
        /\ scan.excluded_numbers = Texts(ExcludedMatches)

\* A scan of three tokens or more, of both kinds, with different texts.
C22_Witness ==
    /\ pc = "scanned"
    /\ Len(scan.all_numbers) >= 3
    /\ Len(scan.regular_numbers) >= 2
    /\ Len(scan.excluded_numbers) >= 1
    /\ scan.all_numbers[1] # scan.all_numbers[2]
    /\ scan.regular_numbers[1] # scan.regular_numbers[2]


-----------------------------------------------------------------------------
(* The search for the longest run of markers (SpecLine)                    *)

\* The text in which the counter looks for the markers.
TestText == substitute_markers(text, scan.regular_numbers, Len(scan.regular_numbers))

\* The markers found in the modified text s, in the order of their offsets.
MarkersInOrder(s) == markers_in_order(marker_positions(s, Len(scan.regular_numbers)))

\* The markers ms[i..j] are adjacent in s: each one ends where the next
\* one begins, whitespace aside.
AdjacentRange(s, ms, i, j) ==
    \A k \in i..(j - 1) :
        \E a \in {find(s, ms[k], 0) + Len(ms[k])} : \E b \in {find(s, ms[k + 1], 0)} :
            /\ a <= b
            /\ \A q \in (a + 1)..b : isspace(s[q])

\* The length of the longest adjacent sub-range of ms in s.
LongestAdjacentRange(s, ms) ==
    Max({j - i + 1 : <<i, j>> \in {r \in (DOMAIN ms) \X (DOMAIN ms) :
                                      r[1] <= r[2] /\ AdjacentRange(s, ms, r[1], r[2])}})

\* C23: when two markers or more are found and they are not all adjacent,
\* the count is the length of the longest sub-range of the ordered markers
\* that is adjacent in the modified text, over all sub-ranges.
C23_CountIsLongestAdjacentRange ==
    (pc = "counted" /\ Len(scan.regular_numbers) >= 2) =>
        \E s \in {TestText} : \E ms \in {MarkersInOrder(s)} :
            (Len(ms) >= 2 /\ ~AdjacentRange(s, ms, 1, Len(ms))) =>
                consecutive = LongestAdjacentRange(s, ms)

\* Five markers in two runs: the longest run has three and is not the first.
C23_Witness ==
    /\ pc = "counted"
    /\ Len(scan.regular_numbers) = 5
    /\ consecutive = 3
    /\ \E s \in {TestText} : \E ms \in {MarkersInOrder(s)} :
           /\ Len(ms) = 5
           /\ ~AdjacentRange(s, ms, 1, 5)
           /\ AdjacentRange(s, ms, 1, 2)
           /\ ~AdjacentRange(s, ms, 1, 3)
           /\ AdjacentRange(s, ms, 3, 5)


-----------------------------------------------------------------------------
(* Numeric companion columns (SpecStructure)                               *)

\* The number each cell of a structured table stands for; the empty cell of
\* a padded row stands for none.
CellNumbers ==
    { << <<"5",",","1","4","7">>, Float(FALSE, 5147, 0) >>,
      << <<"4",",","9","0","4">>, Float(FALSE, 4904, 0) >>,
      << <<"5">>, Float(FALSE, 5, 0) >>,
      << <<"(","1",".","2",")">>, Float(TRUE, 12, 0 - 1) >>,
      << <<"3",".","4","%">>, Float(FALSE, 34, 0 - 3) >>,
      << << >>, NoneValue >> }

\* C24: add_numeric_columns keeps the rows, their 'Line Item', their
\* '_metadata' and the strings of their value columns, and gives every
\* value column c a column c_Num holding, row by row, the number of the
\* cell of c, none for an empty cell.
C24_NumericCompanionColumns ==
    pc = "numeric" =>
        /\ Len(numeric_df) = Len(structured_df)
        /\ \A i \in DOMAIN numeric_df :
               \E old \in {structured_df[i]} : \E new \in {numeric_df[i]} :
                   /\ new.Line_Item = old.Line_Item
                   /\ new._metadata = old._metadata
                   /\ new.values = old.values
                   /\ Len(new.values_Num) = Len(old.values)
                   /\ \A k \in DOMAIN old.values :
                          /\ new.values_Num[k].column = old.values[k].column \o <<"_","N","u","m">>
                          /\ << old.values[k].value, new.values_Num[k].value >> \in CellNumbers

\* A table of five value columns with a padded row: an empty cell without
\* number beside a negative number and a percentage.
C24_Witness ==
    /\ pc = "numeric"
    /\ Len(numeric_df) >= 2
    /\ \E i \in DOMAIN numeric_df :
           /\ Len(numeric_df[i].values_Num) = 5
           /\ numeric_df[i].values_Num[4].value = Float(TRUE, 12, 0 - 1)
           /\ numeric_df[i].values_Num[5].value = Float(FALSE, 34, 0 - 3)
           /\ numeric_df[i].values_Num[5].column = <<"V","a","l","u","e","5","_","N","u","m">>
    /\ \E i \in DOMAIN numeric_df :
           /\ Len(numeric_df[i].values_Num) = 5
           /\ numeric_df[i].values[5].value = << >>
           /\ numeric_df[i].values_Num[5].value = NoneValue


-----------------------------------------------------------------------------
(* Agreement of the two value parsers (SpecParse)                          *)

\* C25: on every token of the scanner's grammar, parse_value and
\* parse_numeric_value return the same number.
C25_ParsersAgreeOnTokens ==
    (pc = "parsed_numeric" /\ ScannerToken(value)) => parsed.numeric = parsed_numeric.numeric


-----------------------------------------------------------------------------
(* The list form and its parser (SpecStructure)                            *)

\* Tokens of the scanner that hold a comma, a comma before a space, or a
\* space.
ExampleTokens == << <<"5",","," ","%">>, <<"5",",">>, <<"1","2","0"," ","b","p","s">>, <<"5",",","1","4","7">> >>

\* C26: parse_regular_numbers gives back the list whose textual form it is
\* handed: the list of every row of the table, the list written
\* "['5,147', '4,904', '5']", a list of tokens with commas and spaces, and
\* the empty list written '[]'.
C26_ParseInvertsListForm ==
    /\ pc \in {"structured", "numeric"} =>
           \A i \in DOMAIN table_df :
               \E L \in NumberLists :
                   /\ table_df[i].Regular_Numbers = repr_list(L)
                   /\ parse_regular_numbers(table_df[i].Regular_Numbers) = L
                   /\ \A k \in DOMAIN L :
                          k <= Len(structured_df[i].values) =>
                              structured_df[i].values[k].value = L[k]
    /\ parse_regular_numbers(<<"[","'","5",",","1","4","7","'",","," ","'","4",",","9","0","4","'",","," ","'","5","'","]">>) = << <<"5",",","1","4","7">>, <<"4",",","9","0","4">>, <<"5">> >>
    /\ parse_regular_numbers(repr_list(ExampleTokens)) = ExampleTokens
    /\ parse_regular_numbers(<<"[","]">>) = << >>

\* A table of five value columns with the list of five tokens and, between
\* two rows holding it, the empty list.
C26_Witness ==
    /\ pc = "structured"
    /\ Len(table_df) = 3
    /\ table_df[1].Regular_Numbers = repr_list(NumberPool)
    /\ table_df[2].Regular_Numbers = <<"[","]">>
    /\ table_df[3].Regular_Numbers = repr_list(NumberPool)
    /\ Len(structured_df[1].values) = 5
    /\ structured_df[1].values[1].value = <<"5",",","1","4","7">>


-----------------------------------------------------------------------------
(* The pipeline filter, group, structure (SpecPipeline)                    *)

\* The largest number of value columns: the tokens of NumberPool.
MaxColumns == Len(NumberPool)

\* Every row of rows has the counts (n, n).
Signature(rows, n) ==
    \A i \in DOMAIN rows : rows[i].Regular_Count = n /\ rows[i].Consecutive_Count = n

\* C27: every table grouped from the filtered rows has one signature (n, n)
\* with n >= 3, so has every table handed to the structurer; its rows then
\* get n value columns, never the two columns Current and Prior.
C27_PipelineTablesHaveThreeColumnsOrMore ==
    /\ pc \in {"grouped", "table_structured"} =>
           \A t \in DOMAIN tables :
               /\ Len(tables[t]) >= 1
               /\ \E n \in 3..MaxColumns : Signature(tables[t], n)
    /\ pc = "table_structured" =>
           /\ Len(structured_df) = Len(table_df)
           /\ \E n \in 3..MaxColumns :
                  /\ Signature(table_df, n)
                  /\ \A i \in DOMAIN structured_df :
                         /\ Len(structured_df[i].values) = n
                         /\ RowColumns(structured_df[i]) = ConventionalNames[n]
                         /\ RowColumns(structured_df[i]) # ConventionalNames[2]

\* A sheet whose rows with the counts (3,2) and (2,2) were filtered out,
\* leaving two tables; the second one, of four columns, was structured.
C27_Witness ==
    /\ pc = "table_structured"
    /\ Len(df) = 3
    /\ Len(df_filtered) = 2
    /\ \E i \in DOMAIN df : df[i].Regular_Count = 2 \/ df[i].Consecutive_Count = 2
    /\ Len(tables) = 2
    /\ table_num = 2
    /\ Signature(table_df, 4)
    /\ RowColumns(structured_df[1]) = ConventionalNames[4]


-----------------------------------------------------------------------------
(* Records and their labels (Spec)                                         *)

\* The label the line is split into is empty once the characters other
\* than letters, digits, whitespace, hyphen, parentheses and square
\* brackets are removed.
EmptyCleanedLabel(line) == Len(clean_label(split_line(line).label)) = 0

\* The indexes in doc of the lines a record was appended for.
EmittedLines == {emitted_at[k] : k \in DOMAIN emitted_at}

\* C28: every record has a label that is not empty and holds allowed
\* characters only; a line whose cleaned label is empty leaves no record,
\* whatever keep test it passes, and neither does a line holding a section
\* keyword, which becomes the current section.
C28_RecordsHaveLabels ==
    /\ Len(all_data) = Len(emitted_at)
    /\ \A k \in DOMAIN all_data :
           /\ Len(all_data[k].label) > 0
           /\ \A c \in DOMAIN all_data[k].label : label_char(all_data[k].label[c])
           /\ all_data[k].raw_line = doc[emitted_at[k]].line
    /\ \A i \in DOMAIN doc :
           (Len(doc[i].line) > 0
               /\ (is_section_heading(doc[i].line) \/ EmptyCleanedLabel(doc[i].line)))
               => i \notin EmittedLines
    /\ pc = "section" => current_section = doc[Len(doc)].line

\* A heading with two regular numbers became the section, and a line kept
\* for its two regular numbers, without label, was rejected; neither left
\* a record.
C28_Witness ==
    /\ pc = "rejected"
    /\ Len(doc) = 2
    /\ doc[1].page = doc[2].page
    /\ is_section_heading(doc[1].line)
    /\ Len(extract_numbers_smart(doc[1].line).regular_numbers) >= 2
    /\ current_section = doc[1].line
    /\ is_financial_line(doc[2].line)
    /\ Len(extract_numbers_smart(doc[2].line).regular_numbers) >= 2
    /\ EmptyCleanedLabel(doc[2].line)
    /\ Len(all_data) = 0

-----------------------------------------------------------------------------
(* Properties of batch processing (SpecBatch)                              *)

\* The file handled last holds a row whose regular count equals its
\* consecutive count and is greater than 2.
SomeRowPasses ==
    \E i \in DOMAIN current_file.content :
        /\ current_file.content[i].Regular_Count = current_file.content[i].Consecutive_Count
        /\ current_file.content[i].Regular_Count > 2

\* The files named by the results so far.
ResultFiles == [i \in DOMAIN results |-> results[i].input_file]

\* The files handled so far, in the order of excel_files.
HandledFiles == SubSeq(excel_files, 1, file_index)

\* The Excel paths of the listing, smallest first, told without sorting.
ExcelFilesInOrder ==
    /\ \A i \in DOMAIN excel_files : excel_files[i] > 0 /\ excel_files[i] \in Range(listing)
    /\ \A f \in Range(listing) : f > 0 => f \in Range(excel_files)
    /\ \A i, j \in DOMAIN excel_files : i < j => excel_files[i] < excel_files[j]

\* C29: batch_process_all_files handles the Excel files of the folder one
\* at a time in sorted order of their names; a file whose read raises gets
\* a result with the status 'error', and the files after it are handled
\* all the same; the results hold one entry for each file handled, in the
\* order of the files, and the batch returns that list.
C29_OneResultPerFileFaultsAreErrors ==
    /\ ExcelFilesInOrder
    /\ file_index \in 0..Len(excel_files)
    /\ ResultFiles = HandledFiles
    /\ (pc = "recorded" /\ current_file.fault = "read")
           => results[Len(results)].status = "error"
    /\ pc = "returned" => ResultFiles = excel_files

\* C30: in the filter script, a file on which the read, the filtering or
\* the save raises gets the status 'no_match'; no result of the batch has
\* the status 'error'; the status 'success' goes only to a file on which
\* nothing raised and of which at least one row passed the filter.
C30_FaultsEndInNoMatch ==
    script = "filter" =>
        /\ \A i \in DOMAIN results : results[i].status \in {"success", "no_match"}
        /\ pc = "recorded" =>
               /\ results[Len(results)].input_file = excel_files[file_index]
               /\ current_file.fault # "none" => results[Len(results)].status = "no_match"
               /\ results[Len(results)].status = "success"
                      <=> (current_file.fault = "none" /\ SomeRowPasses)

\* The save of a file with a passing row raised: the file has the status
\* 'no_match', after a file that was filtered and saved with success.
C30_Witness ==
    /\ script = "filter"
    /\ pc = "recorded"
    /\ Len(results) = 2
    /\ results[1].status = "success"
    /\ current_file.fault = "save"
    /\ SomeRowPasses
    /\ results[2].status = "no_match"

====
